---- MODULE Spec2Model ----
(***************************************************************************)
(* Permission gate of the pi extension: the bash-command safety classifier *)
(* (isSafeBashCommand and its helpers) and the tool_call handler; and the   *)
(* /checkpoints command of the checkpoints extension.                      *)
(*                                                                         *)
(* A JavaScript string is a sequence of one-character strings, so "ls -l"  *)
(* is <<"l","s"," ","-","l">>.  A call that returns a boolean returns      *)
(* "true" or "false"; a call that ends in an uncaught TypeError returns    *)
(* TypeError.                                                              *)
(***************************************************************************)
EXTENDS Integers, Sequences, FiniteSets, TLC

VARIABLES
    command,        \* the command string handed to isSafeBashCommand / input.command
    cleanCommand,   \* isSafeBashCommand: the redirect-normalized command
    hasMeta,        \* isSafeBashCommand: what hasShellMetaChars(cleanCommand) returned
    parts,          \* isSafeBashCommand: the segments of cleanCommand
    verdict,        \* outcome of isSafeBashCommand: "true", "false", TypeError, or "none"
    pc,             \* position of the caller
    toolName,       \* event.toolName
    hasUI,          \* ctx.hasUI
    commandDefined, \* input.command !== undefined
    choice,         \* what ctx.ui.select resolved to
    result,         \* what the handler returned
    reason,         \* the reason of a returned block: <<tool name, text>>, else <<>>
    selectCalls,    \* number of ctx.ui.select calls made for this tool call
    abortCalls,     \* number of ctx.abort calls made for this tool call
    parseState,     \* the ParseState object that advanceParser updates
    stateBefore,    \* the ParseState object before the last call of advanceParser
    scanPos,        \* the number of characters handed to advanceParser
    isActive,       \* what the last call of advanceParser returned
    earlier,        \* the calls of isSafeBashCommand made before: command and verdict
    calls,          \* the number of calls of isSafeBashCommand made
    checkpointFiles,\* ~/.pipi/checkpoints: the content of each file, by file name
    args,           \* the args string of the /checkpoints command being handled
    handlerLocals,  \* the local variables of the checkpoints handler that is running
    notified,       \* the last message of ctx.ui.notify, or the dialog or list shown
    editorText,     \* what ctx.ui.setEditorText was last given
    commands        \* the number of /checkpoints commands handled

vars == <<command, cleanCommand, hasMeta, parts, verdict, pc, toolName, hasUI,
          commandDefined, choice, result, reason, selectCalls, abortCalls,
          parseState, stateBefore, scanPos, isActive, earlier, calls,
          checkpointFiles, args, handlerLocals, notified, editorText, commands>>

scanVars == <<parseState, stateBefore, scanPos, isActive>>

checkpointVars == <<checkpointFiles, args, handlerLocals, notified, editorText, commands>>

callVars == <<earlier, calls>>

TypeError == "TypeError"

----------------------------------------------------------------------------
(* Configuration tables *)

safeBashCommands ==
    { <<"l","s">>, <<"c","a","t">>, <<"c","d">>, <<"g","r","e","p">>, <<"f","i","n","d">>, <<"p","w","d">>, <<"e","c","h","o">>, <<"w","h","i","c","h">>, <<"h","e","a","d">>, <<"t","a","i","l">>,
      <<"l","e","s","s">>, <<"m","o","r","e">>, <<"w","c">>, <<"f","i","l","e">>, <<"s","t","a","t">>, <<"p","r","i","n","t","e","n","v">>, <<"j","q">>, <<"c","u","t">>, <<"s","o","r","t">>, <<"u","n","i","q">> }

safeSubcommands ==
    ( <<"g","i","t">> :> { <<"l","o","g">>, <<"s","h","o","w">>, <<"d","i","f","f">>, <<"s","t","a","t","u","s">>, <<"b","r","a","n","c","h">>, <<"r","e","m","o","t","e">>,
                 <<"l","s","-","f","i","l","e","s">>, <<"l","s","-","t","r","e","e">>, <<"b","l","a","m","e">>, <<"d","e","s","c","r","i","b","e">>, <<"t","a","g">> } )
    @@
    ( <<"j","a","r">> :> { <<"-","t","f">>, <<"-","t">>, <<"-","-","l","i","s","t">> } )

safeGhActions ==
    { <<"v","i","e","w">>, <<"l","i","s","t">>, <<"s","h","o","w">>, <<"s","e","a","r","c","h">>, <<"s","t","a","t","u","s">>, <<"d","i","f","f">>, <<"c","h","e","c","k","s">>, <<"w","a","t","c","h">> }

safeGhResources ==
    { <<"r","e","p","o">>, <<"p","r">>, <<"i","s","s","u","e">>, <<"r","e","l","e","a","s","e">>, <<"r","u","n">>, <<"w","o","r","k","f","l","o","w">>, <<"g","i","s","t">> }

safeKtoolsActions == { <<"l","i","s","t">>, <<"g","e","t">>, <<"c","h","a","p","t","e","r","s">> }

safeKtoolsTools == { <<"y","t","-","t","r","a","n","s","c","r","i","p","t">> }

\* Property names every object literal inherits from Object.prototype: the
\* `in` operator of checkSafeSubcommand finds them in safeSubcommands too.
ObjectPrototypeKeys ==
    { <<"c","o","n","s","t","r","u","c","t","o","r">>, <<"t","o","S","t","r","i","n","g">>, <<"v","a","l","u","e","O","f">>, <<"h","a","s","O","w","n","P","r","o","p","e","r","t","y">>, <<"i","s","P","r","o","t","o","t","y","p","e","O","f">>,
      <<"p","r","o","p","e","r","t","y","I","s","E","n","u","m","e","r","a","b","l","e">>, <<"t","o","L","o","c","a","l","e","S","t","r","i","n","g">>, <<"_","_","p","r","o","t","o","_","_">>,
      <<"_","_","d","e","f","i","n","e","G","e","t","t","e","r","_","_">>, <<"_","_","d","e","f","i","n","e","S","e","t","t","e","r","_","_">>, <<"_","_","l","o","o","k","u","p","G","e","t","t","e","r","_","_">>, <<"_","_","l","o","o","k","u","p","S","e","t","t","e","r","_","_">> }

\* The xargs flags that take an argument
xargsArgFlags == { <<"-","I">>, <<"-","i">>, <<"-","n">>, <<"-","s">>, <<"-","P">>, <<"-","L">>, <<"-","l">> }

----------------------------------------------------------------------------
(* String helpers of the JavaScript runtime *)

\* Characters matched by \s and removed by trim()
Whitespace == {" ", "\t"}

RECURSIVE trimStart(_)
trimStart(s) ==
    IF s # <<>> /\ Head(s) \in Whitespace THEN trimStart(Tail(s)) ELSE s

RECURSIVE trimEnd(_)
trimEnd(s) ==
    IF s # <<>> /\ s[Len(s)] \in Whitespace
    THEN trimEnd(SubSeq(s, 1, Len(s) - 1))
    ELSE s

\* Whitespace is removed in front only
trimInFrontOnly(s) == trimStart(s)

trim(s) == trimEnd(trimStart(s))

startsWith(s, prefix) ==
    Len(prefix) <= Len(s) /\ SubSeq(s, 1, Len(prefix)) = prefix

\* A for loop is run half by half: run(loop, n) is the loop's variables after
\* n more iterations, or fewer when the loop is done before
\* Whitespace inside single or double quotes does not end a word
splitWordsQuoteAware(commandPart) ==
    LET s == commandPart
        closed(loop) ==
            IF loop.word = <<>> THEN loop.words ELSE Append(loop.words, loop.word)
        body(loop) ==
            IF loop.quote = "none" /\ s[loop.i] \in Whitespace
            THEN [i |-> loop.i + 1, word |-> <<>>, words |-> closed(loop),
                  quote |-> loop.quote, done |-> loop.i + 1 > Len(s)]
            ELSE [i |-> loop.i + 1, word |-> Append(loop.word, s[loop.i]),
                  words |-> loop.words,
                  quote |-> IF loop.quote = "none" /\ s[loop.i] \in {"'", "\""}
                            THEN s[loop.i]
                            ELSE IF loop.quote = s[loop.i] THEN "none" ELSE loop.quote,
                  done |-> loop.i + 1 > Len(s)]
        RECURSIVE run(_, _)
        run(loop, n) ==
            IF loop.done \/ n = 0 THEN loop
            ELSE IF n = 1 THEN body(loop)
            ELSE LET half == run(loop, n \div 2) IN
                 IF half.done THEN half ELSE run(half, n - n \div 2)
    IN closed(run([i |-> 1, word |-> <<>>, words |-> <<>>, quote |-> "none",
                    done |-> 1 > Len(s)], Len(s)))

\* commandPart.split(/\s+/).filter((w) => w.length > 0), from character i on
\* with the word begun and the words found so far
splitWordsFrom(s, i, word, words) ==
    LET closed(loop) ==
            IF loop.word = <<>> THEN loop.words ELSE Append(loop.words, loop.word)
        body(loop) ==
            IF s[loop.i] \in Whitespace
            THEN [i |-> loop.i + 1, word |-> <<>>, words |-> closed(loop),
                  done |-> loop.i + 1 > Len(s)]
            ELSE [i |-> loop.i + 1, word |-> Append(loop.word, s[loop.i]),
                  words |-> loop.words, done |-> loop.i + 1 > Len(s)]
        RECURSIVE run(_, _)
        run(loop, n) ==
            IF loop.done \/ n = 0 THEN loop
            ELSE IF n = 1 THEN body(loop)
            ELSE LET half == run(loop, n \div 2) IN
                 IF half.done THEN half ELSE run(half, n - n \div 2)
    IN closed(run([i |-> i, word |-> word, words |-> words,
                    done |-> i > Len(s)], Len(s)))

splitWords(commandPart) == splitWordsFrom(commandPart, 1, <<>>, <<>>)

\* words.join(' ')
RECURSIVE join(_)
join(words) ==
    IF words = <<>> THEN <<>>
    ELSE IF Len(words) = 1 THEN words[1]
    ELSE words[1] \o <<" ">> \o join(Tail(words))

----------------------------------------------------------------------------
(* Policy checking *)

RECURSIVE isCommandSafeWith(_, _)

has(set, word) == IF word \in set THEN "true" ELSE "false"

\* Policy 1, a command with the argument -delete or -D being left to the prompt
checkSimpleSafeCommandByArguments(words) ==
    IF \E k \in 2..Len(words) : words[k] \in { <<"-","d","e","l","e","t","e">>, <<"-","D">> } THEN "false"
    ELSE has(safeBashCommands, words[1])

\* Policy 1
checkSimpleSafeCommand(words) == has(safeBashCommands, words[1])

\* Mutant of checkSafeSubcommand: the second word is not looked up
checkSafeSubcommandAnySecondWord(words) ==
    IF words[1] \in DOMAIN safeSubcommands /\ Len(words) >= 2 THEN "true"
    ELSE "false"

\* Policy 2.  `firstWord in safeSubcommands` is also true of an inherited
\* property; its value has no method `has`, so the call throws.
checkSafeSubcommand(words) ==
    LET firstWord == words[1] IN
    IF firstWord \in DOMAIN safeSubcommands \cup ObjectPrototypeKeys
    THEN IF Len(words) < 2 THEN "false"
         ELSE IF firstWord \in DOMAIN safeSubcommands
              THEN has(safeSubcommands[firstWord], words[2])
              ELSE TypeError
    ELSE "false"

\* Policy 3, a second word that starts with -- being left to the resource test
\* only when it is not followed by a resource
checkSafeGhCommandFlagSkipped(words) ==
    IF words[1] # <<"g","h">> THEN "false"
    ELSE IF Len(words) >= 2 /\ words[2] = <<"-","-","v","e","r","s","i","o","n">> THEN "true"
    ELSE IF Len(words) >= 2 /\ startsWith(words[2], <<"-","-">>)
         THEN IF Len(words) >= 4 /\ words[3] \in safeGhResources
                                 /\ words[4] \in safeGhActions
              THEN "true" ELSE "false"
         ELSE IF Len(words) >= 3 /\ words[2] \in safeGhResources
                                 /\ words[3] \in safeGhActions
              THEN "true" ELSE "false"

\* Policy 3
checkSafeGhCommand(words) ==
    IF words[1] # <<"g","h">> THEN "false"
    ELSE IF Len(words) >= 2 /\ startsWith(words[2], <<"-","-">>)
         THEN IF words[2] = <<"-","-","v","e","r","s","i","o","n">> THEN "true" ELSE "false"
         ELSE IF Len(words) >= 3 /\ words[2] \in safeGhResources
                                 /\ words[3] \in safeGhActions
              THEN "true" ELSE "false"

\* Policy 4, the action being looked for in the last word
checkSafeKtoolsCommandLastWord(words) ==
    IF words[1] # <<"k","t","o","o","l","s">> THEN "false"
    ELSE IF Len(words) >= 3 /\ words[2] \in safeKtoolsTools
                            /\ words[Len(words)] \in safeKtoolsActions
         THEN "true" ELSE "false"

\* Policy 4
checkSafeKtoolsCommand(words) ==
    IF words[1] # <<"k","t","o","o","l","s">> THEN "false"
    ELSE IF Len(words) >= 3 /\ words[2] \in safeKtoolsTools
                            /\ words[3] \in safeKtoolsActions
         THEN "true" ELSE "false"

\* The while loop without the skip of a flag's argument
RECURSIVE xargsSkipFlagsOnly(_, _)
xargsSkipFlagsOnly(words, i) ==
    IF i <= Len(words) /\ startsWith(words[i], <<"-">>)
    THEN IF words[i] \in xargsArgFlags /\ i + 1 > Len(words) THEN 0
         ELSE xargsSkipFlagsOnly(words, i + 1)
    ELSE i

\* The while loop of checkSafeXargsCommand: the index of the first word
\* after the flags, or 0 where the loop returns false (flag without argument).
RECURSIVE xargsSkipFlags(_, _)
xargsSkipFlags(words, i) ==
    IF i <= Len(words) /\ startsWith(words[i], <<"-">>)
    THEN IF words[i] \in xargsArgFlags
         THEN IF i + 1 > Len(words) THEN 0 ELSE xargsSkipFlags(words, i + 2)
         ELSE xargsSkipFlags(words, i + 1)
    ELSE i

\* The slice begins at xargs itself when no flag was skipped
actualCommandFromXargs(words, i) ==
    SubSeq(words, IF i = 2 THEN 1 ELSE i, Len(words))

\* words.slice(i)
actualCommand(words, i) == SubSeq(words, i, Len(words))

\* Policy 5, xargs without a command (it runs echo) being taken for safe
checkSafeXargsCommandEchoDefault(checks, words) ==
    IF words[1] # <<"x","a","r","g","s">> THEN "false"
    ELSE LET i == xargsSkipFlags(words, 2) IN
         IF i = 0 \/ i > Len(words) THEN "true"
         ELSE isCommandSafeWith(checks, join(actualCommand(words, i)))

\* Policy 5
checkSafeXargsCommand(checks, words) ==
    IF words[1] # <<"x","a","r","g","s">> THEN "false"
    ELSE LET i == xargsSkipFlags(words, 2) IN
         IF i = 0 \/ i > Len(words) THEN "false"
         ELSE isCommandSafeWith(checks, join(actualCommand(words, i)))

\* The pipeline of policy checks, in the order of the array
policyChecks ==
    << "checkSimpleSafeCommand", "checkSafeSubcommand", "checkSafeGhCommand",
       "checkSafeKtoolsCommand", "checkSafeXargsCommand" >>

\* policy(words) for one entry of the pipeline
applyPolicy(checks, policy, words) ==
    CASE policy = "checkSimpleSafeCommand" -> checkSimpleSafeCommand(words)
      [] policy = "checkSafeSubcommand"    -> checkSafeSubcommand(words)
      [] policy = "checkSafeGhCommand"     -> checkSafeGhCommand(words)
      [] policy = "checkSafeKtoolsCommand" -> checkSafeKtoolsCommand(words)
      [] policy = "checkSafeXargsCommand"  -> checkSafeXargsCommand(checks, words)

\* The first entry of the pipeline decides alone
someFirstDecides(checks, k, words) == applyPolicy(checks, checks[k], words)

\* checks.some((policy) => policy(words)), from entry k on
RECURSIVE some(_, _, _)
some(checks, k, words) ==
    IF k > Len(checks) THEN "false"
    ELSE LET r == applyPolicy(checks, checks[k], words) IN
         IF r = "false" THEN some(checks, k + 1, words) ELSE r

isCommandSafeWith(checks, commandPart) ==
    LET words == splitWords(commandPart) IN
    IF Len(words) = 0 THEN "false" ELSE some(checks, 1, words)

isCommandSafe(commandPart) == isCommandSafeWith(policyChecks, commandPart)

----------------------------------------------------------------------------
(* Shell command safety checking *)

\* /[<>`$(){}]/ ; the backtick character is written "backtick", a character
\* that a TLA+ string cannot hold
DangerousChars == {"<", ">", "backtick", "$", "(", ")", "{", "}"}

\* Mutant of isDangerousChar: the braces are missing from the character class
isDangerousCharWithoutBraces(char) == char \in DangerousChars \ {"{", "}"}

isDangerousChar(char) == char \in DangerousChars

\* /[|;&]/
OperatorChars == {"|", ";", "&"}

InitialParseState ==
    [inSingleQuote |-> FALSE, inDoubleQuote |-> FALSE, escaped |-> FALSE]

\* Mutant of advanceParser: double quotes are not tracked
advanceParserWithoutDoubleQuotes(char, state) ==
    IF state.escaped
    THEN [state |-> [state EXCEPT !.escaped = FALSE], isActive |-> FALSE]
    ELSE IF char = "\\"
    THEN [state |-> [state EXCEPT !.escaped = TRUE], isActive |-> FALSE]
    ELSE IF char = "'"
    THEN [state |-> [state EXCEPT !.inSingleQuote = ~@], isActive |-> FALSE]
    ELSE [state |-> state, isActive |-> ~state.inSingleQuote]

\* A backslash that follows a backslash keeps the escape pending
advanceParserEscapeKept(char, state) ==
    IF state.escaped
    THEN [state |-> [state EXCEPT !.escaped = (char = "\\")], isActive |-> FALSE]
    ELSE IF char = "\\"
    THEN [state |-> [state EXCEPT !.escaped = TRUE], isActive |-> FALSE]
    ELSE IF char = "'" /\ ~state.inDoubleQuote
    THEN [state |-> [state EXCEPT !.inSingleQuote = ~@], isActive |-> FALSE]
    ELSE IF char = "\"" /\ ~state.inSingleQuote
    THEN [state |-> [state EXCEPT !.inDoubleQuote = ~@], isActive |-> FALSE]
    ELSE [state |-> state,
          isActive |-> ~state.inSingleQuote /\ ~state.inDoubleQuote]

\* Inside single quotes a backslash is an ordinary character, as it is for a shell
advanceParserLiteralBackslash(char, state) ==
    IF state.escaped
    THEN [state |-> [state EXCEPT !.escaped = FALSE], isActive |-> FALSE]
    ELSE IF char = "\\" /\ ~state.inSingleQuote
    THEN [state |-> [state EXCEPT !.escaped = TRUE], isActive |-> FALSE]
    ELSE IF char = "'" /\ ~state.inDoubleQuote
    THEN [state |-> [state EXCEPT !.inSingleQuote = ~@], isActive |-> FALSE]
    ELSE IF char = "\"" /\ ~state.inSingleQuote
    THEN [state |-> [state EXCEPT !.inDoubleQuote = ~@], isActive |-> FALSE]
    ELSE [state |-> state,
          isActive |-> ~state.inSingleQuote /\ ~state.inDoubleQuote]

\* A quote character toggles its flag whatever the other flag is
advanceParserNestedQuotes(char, state) ==
    IF state.escaped
    THEN [state |-> [state EXCEPT !.escaped = FALSE], isActive |-> FALSE]
    ELSE IF char = "\\"
    THEN [state |-> [state EXCEPT !.escaped = TRUE], isActive |-> FALSE]
    ELSE IF char = "'"
    THEN [state |-> [state EXCEPT !.inSingleQuote = ~@], isActive |-> FALSE]
    ELSE IF char = "\""
    THEN [state |-> [state EXCEPT !.inDoubleQuote = ~@], isActive |-> FALSE]
    ELSE [state |-> state,
          isActive |-> ~state.inSingleQuote /\ ~state.inDoubleQuote]

\* The state after the call and the returned isActive
advanceParser(char, state) ==
    IF state.escaped
    THEN [state |-> [state EXCEPT !.escaped = FALSE], isActive |-> FALSE]
    ELSE IF char = "\\"
    THEN [state |-> [state EXCEPT !.escaped = TRUE], isActive |-> FALSE]
    ELSE IF char = "'" /\ ~state.inDoubleQuote
    THEN [state |-> [state EXCEPT !.inSingleQuote = ~@], isActive |-> FALSE]
    ELSE IF char = "\"" /\ ~state.inSingleQuote
    THEN [state |-> [state EXCEPT !.inDoubleQuote = ~@], isActive |-> FALSE]
    ELSE [state |-> state,
          isActive |-> ~state.inSingleQuote /\ ~state.inDoubleQuote]

\* The for loop of hasShellMetaChars, from character i on in the state given
hasShellMetaCharsFrom(cmd, i, state) ==
    LET body(loop) ==
            LET r == advanceParser(cmd[loop.i], loop.state) IN
            IF r.isActive /\ isDangerousChar(cmd[loop.i])
            THEN [i |-> loop.i, state |-> r.state, returned |-> TRUE, done |-> TRUE]
            ELSE [i |-> loop.i + 1, state |-> r.state, returned |-> FALSE,
                  done |-> loop.i + 1 > Len(cmd)]
        RECURSIVE run(_, _)
        run(loop, n) ==
            IF loop.done \/ n = 0 THEN loop
            ELSE IF n = 1 THEN body(loop)
            ELSE LET half == run(loop, n \div 2) IN
                 IF half.done THEN half ELSE run(half, n - n \div 2)
    IN run([i |-> i, state |-> state, returned |-> FALSE,
            done |-> i > Len(cmd)], Len(cmd)).returned

hasShellMetaChars(cmd) == hasShellMetaCharsFrom(cmd, 1, InitialParseState)

\* The inner while loop of splitShellCommand: the last index it skips to
RECURSIVE skipOperators(_, _)
skipOperators(cmd, i) ==
    IF i + 1 <= Len(cmd) /\ cmd[i + 1] \in OperatorChars
    THEN skipOperators(cmd, i + 1)
    ELSE i

\* The part is pushed also when nothing is left of it after trim
pushPartKeepingEmpty(partList, currentPart) == Append(partList, trim(currentPart))

pushPart(partList, currentPart) ==
    IF trim(currentPart) # <<>> THEN Append(partList, trim(currentPart))
    ELSE partList

\* The for loop of splitShellCommand, from character i on, and the push of
\* the last part behind it
splitShellCommandFrom(cmd, i, state, currentPart, partList) ==
    LET body(loop) ==
            LET r == advanceParser(cmd[loop.i], loop.state) IN
            IF r.isActive /\ cmd[loop.i] \in OperatorChars
            THEN [i |-> skipOperators(cmd, loop.i) + 1, state |-> r.state,
                  currentPart |-> <<>>,
                  partList |-> pushPart(loop.partList, loop.currentPart),
                  done |-> skipOperators(cmd, loop.i) + 1 > Len(cmd)]
            ELSE [i |-> loop.i + 1, state |-> r.state,
                  currentPart |-> Append(loop.currentPart, cmd[loop.i]),
                  partList |-> loop.partList, done |-> loop.i + 1 > Len(cmd)]
        RECURSIVE run(_, _)
        run(loop, n) ==
            IF loop.done \/ n = 0 THEN loop
            ELSE IF n = 1 THEN body(loop)
            ELSE LET half == run(loop, n \div 2) IN
                 IF half.done THEN half ELSE run(half, n - n \div 2)
        last == run([i |-> i, state |-> state, currentPart |-> currentPart,
                    partList |-> partList, done |-> i > Len(cmd)], Len(cmd))
    IN pushPart(last.partList, last.currentPart)

splitShellCommand(cmd) ==
    splitShellCommandFrom(cmd, 1, InitialParseState, <<>>, <<>>)

\* The six patterns of the redirect stripping, in the order of the chain.
\* Each is \s* pre, then (where post is not empty) \s* post.
RedirectPatterns ==
    << [pre |-> <<"2",">">>,    post |-> <<"/","d","e","v","/","n","u","l","l">>],
       [pre |-> <<"1",">">>,    post |-> <<"/","d","e","v","/","n","u","l","l">>],
       [pre |-> <<"&",">">>,    post |-> <<"/","d","e","v","/","n","u","l","l">>],
       [pre |-> <<">">>,     post |-> <<"/","d","e","v","/","n","u","l","l">>],
       [pre |-> <<"2",">","&","1">>,  post |-> <<>>],
       [pre |-> <<"2",">",">","&","1">>, post |-> <<>>] >>

RECURSIVE skipWhitespace(_, _)
skipWhitespace(s, p) ==
    IF p <= Len(s) /\ s[p] \in Whitespace THEN skipWhitespace(s, p + 1) ELSE p

literalAt(s, p, lit) ==
    p + Len(lit) - 1 <= Len(s) /\ SubSeq(s, p, p + Len(lit) - 1) = lit

\* Where the match of the pattern that starts at p ends (the index after
\* it), or 0 when the pattern does not match at p
matchEnd(s, p, pattern) ==
    LET a == skipWhitespace(s, p) IN
    IF ~literalAt(s, a, pattern.pre) THEN 0
    ELSE LET b == a + Len(pattern.pre) IN
         IF pattern.post = <<>> THEN b
         ELSE LET c == skipWhitespace(s, b) IN
              IF literalAt(s, c, pattern.post) THEN c + Len(pattern.post)
              ELSE 0

\* s.replace(/pattern/g, "")
\* The scan of a global replace, from position p on: a match is left out and
\* the scan goes on behind it, any other character is kept
replaceFrom(s, p, pattern, out) ==
    LET body(loop) ==
            LET e == matchEnd(s, loop.p, pattern) IN
            IF e > 0 THEN [p |-> e, out |-> loop.out, done |-> e > Len(s)]
            ELSE [p |-> loop.p + 1, out |-> Append(loop.out, s[loop.p]),
                  done |-> loop.p + 1 > Len(s)]
        RECURSIVE run(_, _)
        run(loop, n) ==
            IF loop.done \/ n = 0 THEN loop
            ELSE IF n = 1 THEN body(loop)
            ELSE LET half == run(loop, n \div 2) IN
                 IF half.done THEN half ELSE run(half, n - n \div 2)
    IN run([p |-> p, out |-> out, done |-> p > Len(s)], Len(s)).out

replace(s, pattern) == replaceFrom(s, 1, pattern, <<>>)

\* The chain without the replacements of 2>&1 and 2>>&1
RECURSIVE stripRedirectsDevNullOnly(_, _)
stripRedirectsDevNullOnly(s, k) ==
    IF k > 4 THEN s
    ELSE stripRedirectsDevNullOnly(replace(s, RedirectPatterns[k]), k + 1)

\* The chain of replace calls, from pattern k on
RECURSIVE stripRedirectsFrom(_, _)
stripRedirectsFrom(s, k) ==
    IF k > Len(RedirectPatterns) THEN s
    ELSE stripRedirectsFrom(replace(s, RedirectPatterns[k]), k + 1)

stripRedirects(cmd) == stripRedirectsFrom(cmd, 1)

\* Mutant of checkParts: the loop returns after its first part
checkPartsFirstOnly(partList, k) ==
    IF k > Len(partList) THEN "true" ELSE isCommandSafe(partList[k])

\* The for loop over the parts, from part k on
RECURSIVE checkParts(_, _)
checkParts(partList, k) ==
    IF k > Len(partList) THEN "true"
    ELSE LET r == isCommandSafe(partList[k]) IN
         IF r = "true" THEN checkParts(partList, k + 1) ELSE r

isSafeBashCommand(cmd) ==
    LET clean == stripRedirects(cmd) IN
    IF hasShellMetaChars(clean) THEN "false"
    ELSE checkParts(splitShellCommand(clean), 1)

\* The ParseState object at the end of the for loop of splitShellCommand
parseStateAfter(cmd, i, state) ==
    LET body(loop) ==
            [i |-> loop.i + 1, state |-> advanceParser(cmd[loop.i], loop.state).state,
             done |-> loop.i + 1 > Len(cmd)]
        RECURSIVE run(_, _)
        run(loop, n) ==
            IF loop.done \/ n = 0 THEN loop
            ELSE IF n = 1 THEN body(loop)
            ELSE LET half == run(loop, n \div 2) IN
                 IF half.done THEN half ELSE run(half, n - n \div 2)
    IN run([i |-> i, state |-> state, done |-> i > Len(cmd)], Len(cmd)).state

\* The ParseState object is the one that the call before left behind
parseStateKept(left) == left

\* const state: ParseState = {...}: each call of hasShellMetaChars and of
\* splitShellCommand makes its own object, whatever the call before left
parseStateOfCall(left) == InitialParseState

\* isSafeBashCommand, its two scans starting with the ParseState given
isSafeBashCommandFrom(cmd, state) ==
    LET clean == stripRedirects(cmd) IN
    IF hasShellMetaCharsFrom(clean, 1, state) THEN "false"
    ELSE checkParts(splitShellCommandFrom(clean, 1, state, <<>>, <<>>), 1)

----------------------------------------------------------------------------
(* handleChoice: the returned value, the reason of a block, and the number
   of ctx.abort calls *)

\* A dismissed prompt is taken for "Skip"
handleChoiceDismissedSkips(picked, tool) ==
    IF picked = "Allow"
    THEN [result |-> "undefined", reason |-> <<>>, aborts |-> 0]
    ELSE IF picked \in { "Skip", "undefined" }
    THEN [result |-> "skipped by user", reason |-> <<tool, " skipped by user">>,
          aborts |-> 0]
    ELSE [result |-> "aborted by user", reason |-> <<tool, " aborted by user">>,
          aborts |-> 1]

handleChoice(picked, tool) ==
    IF picked = "Allow"
    THEN [result |-> "undefined", reason |-> <<>>, aborts |-> 0]
    ELSE IF picked = "Skip"
    THEN [result |-> "skipped by user", reason |-> <<tool, " skipped by user">>,
          aborts |-> 0]
    ELSE [result |-> "aborted by user", reason |-> <<tool, " aborted by user">>,
          aborts |-> 1]

----------------------------------------------------------------------------
(* The tool_call handler up to its first return or await: what
   isSafeBashCommand returned ("none" when it is not called), what the
   handler returned ("none" when it goes on to ctx.ui.select), the reason *)

\* The classifier is asked for every defined command, the empty one included
toolCallOutcomeEmptyClassified(tool, ui, defined, cmd) ==
    IF tool = "read"
    THEN [verdict |-> "none", returned |-> "undefined", reason |-> <<>>]
    ELSE IF ~ui
    THEN [verdict |-> "none", returned |-> "blocked (no UI for confirmation)",
          reason |-> <<tool, " blocked (no UI for confirmation)">>]
    ELSE LET v == IF tool = "bash" /\ defined
                  THEN isSafeBashCommand(cmd) ELSE "none"
         IN IF v = "true"
            THEN [verdict |-> v, returned |-> "undefined", reason |-> <<>>]
            ELSE IF v = TypeError
            THEN [verdict |-> v, returned |-> TypeError, reason |-> <<>>]
            ELSE [verdict |-> v, returned |-> "none", reason |-> <<>>]

\* The classifier is asked before ctx.hasUI is looked at
toolCallOutcomeClassifierFirst(tool, ui, defined, cmd) ==
    LET v == IF tool = "bash" /\ defined /\ cmd # <<>>
             THEN isSafeBashCommand(cmd) ELSE "none"
    IN IF tool = "read"
       THEN [verdict |-> "none", returned |-> "undefined", reason |-> <<>>]
       ELSE IF v = "true"
       THEN [verdict |-> v, returned |-> "undefined", reason |-> <<>>]
       ELSE IF v = TypeError
       THEN [verdict |-> v, returned |-> TypeError, reason |-> <<>>]
       ELSE IF ~ui
       THEN [verdict |-> v, returned |-> "blocked (no UI for confirmation)",
             reason |-> <<tool, " blocked (no UI for confirmation)">>]
       ELSE [verdict |-> v, returned |-> "none", reason |-> <<>>]

toolCallOutcome(tool, ui, defined, cmd) ==
    IF tool = "read"
    THEN [verdict |-> "none", returned |-> "undefined", reason |-> <<>>]
    ELSE IF ~ui
    THEN [verdict |-> "none", returned |-> "blocked (no UI for confirmation)",
          reason |-> <<tool, " blocked (no UI for confirmation)">>]
    ELSE LET v == IF tool = "bash" /\ defined /\ cmd # <<>>
                  THEN isSafeBashCommand(cmd) ELSE "none"
         IN IF v = "true"
            THEN [verdict |-> v, returned |-> "undefined", reason |-> <<>>]
            ELSE IF v = TypeError
            THEN [verdict |-> v, returned |-> TypeError, reason |-> <<>>]
            ELSE [verdict |-> v, returned |-> "none", reason |-> <<>>]

----------------------------------------------------------------------------
(* The checkpoints extension.  The directory ~/.pipi/checkpoints is a
   function from file names to contents; a handler keeps its local variables
   in a record, which stays as it was at the return until the next command; each operator below is the code that runs from one
   await of a handler to the next, and returns where the handler is then,
   the directory, the local variables and the last notification *)

filePath(name) == name \o <<".","m","d">>

existsSync(files, path) == path \in DOMAIN files

unlinkSync(files, path) == [p \in DOMAIN files \ {path} |-> files[p]]

writeFileSync(files, path, content) ==
    [p \in DOMAIN files \cup {path} |-> IF p = path THEN content ELSE files[p]]

endsWith(s, suffix) ==
    Len(s) >= Len(suffix) /\ SubSeq(s, Len(s) - Len(suffix) + 1, Len(s)) = suffix

getSavedCheckpoints(files) ==
    { SubSeq(f, 1, Len(f) - 3) : f \in { g \in DOMAIN files : endsWith(g, <<".","m","d">>) } }

NoLocals ==
    [name |-> <<>>, prompts |-> {}, selected |-> <<>>, messages |-> 0,
     existed |-> FALSE, ok |-> "none", model |-> "none", apiKey |-> "none",
     response |-> "none"]

Returns(files, locals, note) ==
    [pc |-> "idle", files |-> files, locals |-> locals, notified |-> note]

Awaits(at, files, locals, note) ==
    [pc |-> at, files |-> files, locals |-> locals, notified |-> note]

\* saveHandler up to ctx.ui.select
saveHandlerCalled(files, rest, prompts, note) ==
    LET name == trim(rest) IN
    IF name = <<>> THEN Returns(files, NoLocals, "Usage: /save <name>")
    ELSE IF prompts = {}
    THEN Returns(files, [NoLocals EXCEPT !.name = name],
                 "No prompts found. Add prompts to ~/.pipi/prompts/")
    ELSE Awaits("save_select", files,
                [NoLocals EXCEPT !.name = name, !.prompts = prompts], note)

\* saveHandler from "Generating continuation prompt..." up to getApiKey
saveGenerating(files, locals, model) ==
    IF model = "undefined"
    THEN Returns(files, [locals EXCEPT !.model = model], "No model selected")
    ELSE Awaits("save_getApiKey", files, [locals EXCEPT !.model = model],
                "Generating continuation prompt...")

\* saveHandler from the answer of ctx.ui.select up to ctx.ui.confirm, or up to
\* getApiKey when there is no file to write over
saveHandlerSelected(files, locals, selected, messages, model, note) ==
    IF selected = <<>> THEN Returns(files, locals, note)
    ELSE IF messages = 0
    THEN Returns(files, [locals EXCEPT !.selected = selected], "No conversation to save")
    ELSE LET l == [locals EXCEPT !.selected = selected, !.messages = messages,
                                 !.existed = existsSync(files, filePath(locals.name))]
         IN IF l.existed THEN Awaits("save_confirm", files, l, note)
            ELSE saveGenerating(files, l, model)

\* saveHandler from the answer of ctx.ui.confirm up to getApiKey
saveHandlerConfirmed(files, locals, ok, model, note) ==
    IF ok # "true" THEN Returns(files, [locals EXCEPT !.ok = ok], note)
    ELSE saveGenerating(files, [locals EXCEPT !.ok = ok], model)

\* saveHandler from the answer of getApiKey up to complete
saveHandlerApiKey(files, locals, apiKey, note) ==
    IF apiKey = "undefined"
    THEN Returns(files, [locals EXCEPT !.apiKey = apiKey],
                 "No API key available for current model")
    ELSE Awaits("save_complete", files, [locals EXCEPT !.apiKey = apiKey], note)

\* The file is written before complete is known to have returned
saveHandlerCompletedWriteFirst(files, locals, response, content) ==
    IF response = "thrown"
    THEN Returns(writeFileSync(files, filePath(locals.name), content),
                 [locals EXCEPT !.response = response], "Failed")
    ELSE Awaits("save_dialog", writeFileSync(files, filePath(locals.name), content),
                [locals EXCEPT !.response = response], "Saved")

\* saveHandler from the outcome of complete up to the dialog
saveHandlerCompleted(files, locals, response, content) ==
    IF response = "thrown"
    THEN Returns(files, [locals EXCEPT !.response = response], "Failed")
    ELSE Awaits("save_dialog", writeFileSync(files, filePath(locals.name), content),
                [locals EXCEPT !.response = response], "Saved")

\* saveHandler and showHelp from the end of showMarkdownDialog; a dialog of
\* saveHandler that throws is caught
showMarkdownDialogEnded(files, locals, at, dialog, note) ==
    IF at = "save_dialog" /\ dialog = "thrown" THEN Returns(files, locals, "Failed")
    ELSE Returns(files, locals, note)

\* The file is removed whatever ctx.ui.confirm answered
deleteHandlerConfirmedUnasked(files, locals, ok, note) ==
    Returns(unlinkSync(files, filePath(locals.name)), [locals EXCEPT !.ok = ok], "Deleted")

\* deleteHandler up to ctx.ui.confirm
deleteHandlerCalled(files, rest, note) ==
    LET name == trim(rest) IN
    IF name = <<>> THEN Returns(files, NoLocals, "Usage: /checkpoints delete <name>")
    ELSE IF ~existsSync(files, filePath(name))
    THEN Returns(files, [NoLocals EXCEPT !.name = name], "Checkpoint not found")
    ELSE Awaits("delete_confirm", files, [NoLocals EXCEPT !.name = name], note)

\* deleteHandler from the answer of ctx.ui.confirm
deleteHandlerConfirmed(files, locals, ok, note) ==
    IF ok # "true" THEN Returns(files, [locals EXCEPT !.ok = ok], note)
    ELSE Returns(unlinkSync(files, filePath(locals.name)), [locals EXCEPT !.ok = ok],
                 "Deleted")

\* continueHandler from the name on
continueHandlerNamed(files, name) ==
    IF ~existsSync(files, filePath(name))
    THEN Returns(files, [NoLocals EXCEPT !.name = name], "Checkpoint not found")
    ELSE Returns(files, [NoLocals EXCEPT !.name = name], "Loaded")

\* What the editor holds when continueHandler has run for the name
setEditorText(files, name, text) ==
    IF name # <<>> /\ existsSync(files, filePath(name)) THEN files[filePath(name)]
    ELSE text

\* continueHandler up to ctx.ui.select, or to its end when it has a name
continueHandlerCalled(files, rest, note) ==
    LET name == trim(rest) IN
    IF name # <<>> THEN continueHandlerNamed(files, name)
    ELSE IF getSavedCheckpoints(files) = {}
    THEN Returns(files, NoLocals, "No saved checkpoints found")
    ELSE Awaits("continue_select", files, NoLocals, note)

\* continueHandler from the answer of ctx.ui.select
continueHandlerSelected(files, selected, note) ==
    IF selected = <<>> THEN Returns(files, NoLocals, note)
    ELSE continueHandlerNamed(files, selected)

\* args.trim().split(/\s+/): the split of the empty string is [""]
splitArgs(a) == IF trim(a) = <<>> THEN << <<>> >> ELSE splitWords(trim(a))

actionOf(a) == splitArgs(a)[1]

restOf(a) == join(Tail(splitArgs(a)))

\* The handler of the checkpoints command up to its first await
checkpointsHandler(files, a, prompts, note) ==
    IF actionOf(a) = <<"s","a","v","e">> THEN saveHandlerCalled(files, restOf(a), prompts, note)
    ELSE IF actionOf(a) = <<"c","o","n","t","i","n","u","e">> THEN continueHandlerCalled(files, restOf(a), note)
    ELSE IF actionOf(a) = <<"l","i","s","t">>
    THEN Returns(files, NoLocals, IF getSavedCheckpoints(files) = {}
                                  THEN "No saved checkpoints found"
                                  ELSE "Saved Checkpoints")
    ELSE IF actionOf(a) = <<"d","e","l","e","t","e">> THEN deleteHandlerCalled(files, restOf(a), note)
    ELSE IF actionOf(a) = <<"h","e","l","p">> \/ actionOf(a) = <<>>
    THEN Awaits("help_dialog", files, NoLocals, "Checkpoints Help")
    ELSE Returns(files, NoLocals, "Unknown action")

\* No /checkpoints command has been given
CheckpointsAtRest ==
    /\ checkpointFiles = [f \in {} |-> <<>>]
    /\ args = <<>>
    /\ handlerLocals = NoLocals
    /\ notified = "none"
    /\ editorText = <<>>
    /\ commands = 0

----------------------------------------------------------------------------
(* Inputs *)

\* The longest command of GenericCommands, in tokens
MaxTokens == 3

Vocabulary ==
    { <<"l","s">>, <<"r","m">>, <<"x">>, <<" ">>, <<";">>, <<"|">>, <<"&">>, <<">">>, <<"2">>, <<"$">>, <<"'">>, <<"\"">>, <<"\\">>, <<"/","d","e","v","/","n","u","l","l">> }

RECURSIVE TokenStrings(_)
TokenStrings(n) ==
    IF n = 0 THEN { <<>> }
    ELSE LET shorter == TokenStrings(n - 1) IN
         shorter \cup { s \o t : s \in shorter, t \in Vocabulary }

\* Every string of at most MaxTokens tokens
GenericCommands == TokenStrings(MaxTokens)

\* Commands of the test file
TestCommands ==
    { <<"l","s"," ","-","l","a">>, <<"c","a","t"," ","f","i","l","e",".","t","x","t">>, <<"c","d"," ","/","s","o","m","e","/","d","i","r","e","c","t","o","r","y">>, <<"f","i","n","d"," ","."," ","-","n","a","m","e"," ","'","*",".","t","s","'">>,
      <<"g","i","t"," ","s","t","a","t","u","s">>, <<"g","i","t"," ","l","o","g">>, <<"g","h"," ","r","e","p","o"," ","v","i","e","w">>, <<"p","w","d">>, <<"e","c","h","o"," ","h","e","l","l","o">>,
      <<"r","m"," ","-","r","f"," ","/">>, <<"e","c","h","o"," ","$","(","w","h","o","a","m","i",")">>, <<"l","s"," ",">"," ","o","u","t","p","u","t",".","t","x","t">>, <<"c","u","r","l"," ","e","v","i","l",".","c","o","m"," ","|"," ","s","h">>,
      <<"c","a","t"," ","f","i","l","e",".","t","x","t"," ","<"," ","i","n","p","u","t",".","t","x","t">>, <<"g","i","t"," ","c","o","m","m","i","t"," ","-","m"," ","'","t","e","s","t","'">>, <<"m","v"," ","f","i","l","e","1"," ","f","i","l","e","2">>,
      <<"c","a","t"," ","f","i","l","e",".","t","x","t"," ","|"," ","g","r","e","p"," ","t","e","s","t">>, <<"g","i","t"," ","l","o","g"," ","|"," ","h","e","a","d"," ","-","n"," ","1","0">>, <<"c","d"," ","/","t","m","p"," ","&","&"," ","l","s">>,
      <<"p","w","d"," ","&","&"," ","e","c","h","o"," ","h","e","l","l","o">>, <<"c","a","t"," ","f","i","l","e",".","t","x","t"," ","2",">","/","d","e","v","/","n","u","l","l">>, <<"l","s"," ","2",">","/","d","e","v","/","n","u","l","l">>,
      <<"g","i","t"," ","s","t","a","t","u","s"," ","2",">","&","1"," ",">","/","d","e","v","/","n","u","l","l">>, <<"g","h"," ","-","-","v","e","r","s","i","o","n">>, <<"g","h"," ","r","e","p","o"," ","d","e","l","e","t","e">>, <<"g","h"," ","p","r"," ","m","e","r","g","e">>,
      <<"l","s"," ","backtick","w","h","o","a","m","i","backtick">>, <<"e","c","h","o"," ","$","H","O","M","E">>, <<"e","c","h","o"," ","$","{","U","S","E","R","}">>, <<"l","s"," ","(","w","h","o","a","m","i",")">>, <<"l","s"," ","{","a",",","b",",","c","}">>,
      <<"g","r","e","p"," ","\"","O","p","e","n","A","I","C","o","m","p","l","e","t","i","o","n","s","C","o","m","p","a","t"," ","{","\""," ","f","i","l","e",".","t","s">>, <<"g","r","e","p"," ","'","p","a","t","t","e","r","n"," ","{","'"," ","f","i","l","e",".","t","x","t">>,
      <<"e","c","h","o"," ","\"","r","e","d","i","r","e","c","t"," ",">"," ","f","i","l","e","\"">>, <<"c","a","t"," ","\"","f","i","l","e","$","n","a","m","e",".","t","x","t","\"">>, <<"e","c","h","o"," ","'","s","u","b","s","h","e","l","l"," ","(","t","e","s","t",")","'">>,
      <<"g","r","e","p"," ","\"","b","a","c","k","t","i","c","k"," ","backtick","t","e","s","t","backtick","\"">>, <<"e","c","h","o"," ","\\","{">>, <<"e","c","h","o"," ","\\","$","H","O","M","E">>, <<"g","r","e","p"," ","\\",">"," ","f","i","l","e",".","t","x","t">>,
      <<"g","r","e","p"," ","\"","p","a","t","t","e","r","n"," ","'","n","e","s","t","e","d","'","\""," ","f","i","l","e",".","t","x","t">>, <<"g","r","e","p"," ","'","p","a","t","t","e","r","n"," ","\"","n","e","s","t","e","d","\"","'"," ","f","i","l","e",".","t","x","t">>,
      <<"k","t","o","o","l","s"," ","y","t","-","t","r","a","n","s","c","r","i","p","t"," ","l","i","s","t"," ","d","Q","w","4","w","9","W","g","X","c","Q">>, <<"k","t","o","o","l","s"," ","y","t","-","t","r","a","n","s","c","r","i","p","t"," ","d","e","l","e","t","e"," ","d","Q","w","4","w","9","W","g","X","c","Q">>,
      <<"k","t","o","o","l","s"," ","u","n","k","n","o","w","n","-","t","o","o","l"," ","l","i","s","t"," ","d","Q","w","4","w","9","W","g","X","c","Q">>,
      <<"x","a","r","g","s"," ","g","r","e","p"," ","p","a","t","t","e","r","n">>, <<"x","a","r","g","s"," ","-","n"," ","1"," ","h","e","a","d">>, <<"x","a","r","g","s"," ","-","0"," ","g","r","e","p"," ","s","e","a","r","c","h">>, <<"x","a","r","g","s"," ","g","i","t"," ","s","t","a","t","u","s">>,
      <<"x","a","r","g","s"," ","r","m">>, <<"x","a","r","g","s"," ","s","h"," ","-","c">>, <<"x","a","r","g","s"," ","g","i","t"," ","c","o","m","m","i","t">>, <<"x","a","r","g","s">>, <<"x","a","r","g","s"," ","-","I">>, <<"x","a","r","g","s"," ","-","n">>,
      <<"x","a","r","g","s"," ","-","I"," ","r","e","p","l","a","c","e","m","e","n","t","-","s","t","r","i","n","g">>,
      <<"g","r","e","p"," ","\"","p","a","t","t","e","r","n","|","w","i","t","h","|","p","i","p","e","s","\""," ","f","i","l","e",".","t","x","t">>, <<"e","c","h","o"," ","\"","c","o","m","m","a","n","d",";"," ","a","n","o","t","h","e","r","\""," ","|"," ","c","a","t">>,
      <<"f","i","n","d"," ","."," ","-","n","a","m","e"," ","\"","*",".","m","d","\""," ","|"," ","x","a","r","g","s"," ","g","r","e","p"," ","-","l"," ","-","i"," ","\"","b","u","n","d","l","e","\\","|","s","h","a","d","e","\\","|","c","o","n","f","l","i","c","t","\"">>,
      <<"l","s"," ","|"," ","g","r","e","p"," ","\"","f","i","l","e",";","n","a","m","e","\"">>, <<"c","a","t"," ","f","i","l","e",".","t","x","t"," ","|"," ","g","r","e","p"," ","\"","t","e","x","t","&","m","o","r","e","\"">>,
      <<"e","c","h","o"," ","\"","a","|","b","\""," ","|"," ","g","r","e","p"," ","t","e","s","t">>, <<"l","s"," ",";"," ","e","c","h","o"," ","\"","d","o","n","e","&","f","i","n","i","s","h","e","d","\"">>,
      <<"a"," ",";"," ","b"," ","|"," ","c">>, <<"e","c","h","o"," ","\"","x",";","y","\""," ",";"," ","l","s">> }

\* A first word of every kind, followed by nothing or by further words
FirstWords ==
    safeBashCommands \cup DOMAIN safeSubcommands \cup ObjectPrototypeKeys
    \cup { <<"g","h">>, <<"k","t","o","o","l","s">>, <<"x","a","r","g","s">>, <<"r","m">>, <<"m","v">>, <<"s","h">>, <<"c","u","r","l">>, <<"s","u","d","o">>, <<"l","s","x">>, <<"l">> }

Tails == { <<>>, <<" ","x">>, <<" ","-","r","f"," ","/">>, <<" ","l","o","g"," ","-","p">>, <<"\\","t","x"," ">> }

FirstWordCommands == { w \o t : w \in FirstWords, t \in Tails }

\* A first word with an entry in safeSubcommands (own or inherited), a second word
SecondWords ==
    safeSubcommands[<<"g","i","t">>] \cup safeSubcommands[<<"j","a","r">>]
    \cup { <<"c","o","m","m","i","t">>, <<"p","u","s","h">>, <<"-","C">>, <<"-","x","f">>, <<"x">>, <<"c","o","n","s","t","r","u","c","t","o","r">> }

SubcommandCommands ==
    { f \o <<" ">> \o s \o t :
        f \in DOMAIN safeSubcommands \cup { <<"c","o","n","s","t","r","u","c","t","o","r">>, <<"t","o","S","t","r","i","n","g">>, <<"_","_","p","r","o","t","o","_","_">>, <<"g","i">>, <<"j","a","r","s">> },
        s \in SecondWords,
        t \in { <<>>, <<" ","x">> } }

\* A redirect of every recognized form, to /dev/null and to paths that begin with it
RedirectTargets ==
    { <<"/","d","e","v","/","n","u","l","l">>, <<"/","d","e","v","/","n","u","l","l","x">>, <<"/","d","e","v","/","n","u","l","l",".","t","x","t">>, <<"/","d","e","v","/","n","u","l","l","/",".",".","/","x">>, <<"/","d","e","v","/","n","u","l">>, <<"o","u","t",".","t","x","t">> }

RedirectCommands ==
    { pre \o ws1 \o fd \o <<">">> \o ws2 \o target \o post :
        pre \in { <<"l","s">>, <<"l","s"," ","x">>, <<"r","m">>, <<"e","c","h","o"," ","h","i">> },
        ws1 \in { <<>>, <<" ">> },
        fd \in { <<>>, <<"2">>, <<"1">>, <<"&">> },
        ws2 \in { <<>>, <<" ">>, <<"\\","t">> },
        target \in RedirectTargets,
        post \in { <<>>, <<" ","y">>, <<" ",";"," ","r","m">>, <<"|"," ","r","m">> } }
    \cup
    { pre \o ws1 \o merge \o post :
        pre \in { <<"l","s">>, <<"g","i","t"," ","s","t","a","t","u","s">>, <<"r","m">> },
        ws1 \in { <<>>, <<" ">> },
        merge \in { <<"2",">","&","1">>, <<"2",">",">","&","1">>, <<">","&","1">>, <<"2",">","&","2">> },
        post \in { <<>>, <<"x">>, <<" ",">","/","d","e","v","/","n","u","l","l">>, <<" ","|"," ","r","m">> } }

\* Every dangerous character: bare, quoted, escaped, after an escaped backslash
MetaCharCommands ==
    { <<"e","c","h","o"," ">> \o before \o <<d>> \o after :
        d \in DangerousChars,
        before \in { <<>>, <<"'">>, <<"\"">>, <<"\\">>, <<"\\","\\">>, <<"'","a","'"," ">>, <<"\"","'">>, <<"'","\"">>, <<"\\","\"">>, <<"\\","'">> },
        after \in { <<>>, <<"'">>, <<"\"">>, <<"x">> } }

\* A quoted or escaped redirect text between two backslashes
EscapedRedirectCommands ==
    { <<"e","c","h","o"," ">> \o q \o <<"\\">> \o ws \o <<">","/","d","e","v","/","n","u","l","l">> \o <<"\\">> \o c \o <<" ","$">> \o q2 :
        q \in { <<>>, <<"\"">> },
        ws \in { <<>>, <<" ">> },
        c \in { <<"\"">>, <<"'">>, <<"x">> },
        q2 \in { <<>>, <<"\"">>, <<"'">> } }
    \cup
    { <<"l","s"," ","\\">> \o r \o post :
        r \in { <<">","/","d","e","v","/","n","u","l","l">>, <<" ",">","/","d","e","v","/","n","u","l","l">>, <<" ","2",">","&","1">> },
        post \in { <<">","x">>, <<";","r","m">>, <<"$","x">>, <<" ","|"," ","r","m">> } }

\* Segments joined by operators
SegmentTexts == { <<"a">>, <<"l","s">>, <<"r","m">>, <<"e","c","h","o"," ","\"","x",";","y","\"">>, <<"e","c","h","o"," ","'","a","|","b","'">>, <<"e","c","h","o"," ","\\",";">>, <<"g","i","t"," ","l","o","g">>, <<" ">> }

OperatorTexts == { <<";">>, <<" ",";"," ">>, <<" ","|"," ">>, <<"&","&">>, <<" ","|","|"," ">>, <<" ","&"," ">>, <<";",";">>, <<";"," ",";">> }

CompoundCommands ==
    { a \o o1 \o b : a \in SegmentTexts, o1 \in OperatorTexts, b \in SegmentTexts }
    \cup
    { a \o o1 \o b \o o2 \o c :
        a \in { <<"a">>, <<"l","s">> }, o1 \in OperatorTexts, b \in { <<"b">>, <<"e","c","h","o"," ","\"","x",";","y","\"">>, <<" ">> },
        o2 \in OperatorTexts, c \in { <<"c">>, <<"r","m">>, <<>> } }

\* gh followed by a resource, a flag or another word, an action or none, more words
GhCommands ==
    { <<"g","h">> \o second \o third \o rest :
        second \in { <<" ">> \o w : w \in safeGhResources
                        \cup { <<"-","-","v","e","r","s","i","o","n">>, <<"-","-","h","e","l","p">>, <<"-","-","r","e","p","o">>, <<"-","R">>, <<"a","p","i">>, <<"v","i","e","w">>, <<"x">> } }
                   \cup { <<>> },
        third \in { <<" ">> \o w : w \in safeGhActions
                        \cup safeGhResources \cup { <<"d","e","l","e","t","e">>, <<"m","e","r","g","e">>, <<"-","-","v","e","r","s","i","o","n">> } }
                  \cup { <<>> },
        rest \in { <<>>, <<" ","v","i","e","w">>, <<" ","1","2","3"," ","-","-","j","s","o","n"," ","x">> } }

\* ktools followed by a tool, an action or none, more words
KtoolsCommands ==
    { <<"k","t","o","o","l","s">> \o tool \o action \o rest :
        tool \in { <<>>, <<" ","y","t","-","t","r","a","n","s","c","r","i","p","t">>, <<" ","u","n","k","n","o","w","n","-","t","o","o","l">>, <<" ","l","i","s","t">>, <<" ","y","t","-","t","r","a","n","s","c","r","i","p","t","s">> },
        action \in { <<" ">> \o w : w \in safeKtoolsActions
                        \cup { <<"d","e","l","e","t","e">>, <<"y","t","-","t","r","a","n","s","c","r","i","p","t">>, <<"l","i","s","t","s">> } } \cup { <<>> },
        rest \in { <<>>, <<" ","d","Q","w","4","w","9","W","g","X","c","Q">>, <<" ","l","i","s","t">>, <<" ","d","e","l","e","t","e"," ","x">>, <<" ","g","e","t"," ","c","h","a","p","t","e","r","s">>, <<"\\","t","-","-","l","a","n","g"," "," ","e","n"," ">> } }

\* xargs followed by flags, with and without their arguments, and a command or none
XargsFlagTexts ==
    { <<>>, <<" ","-","0">>, <<" ","-","n"," ","1">>, <<" ","-","I"," ","x">>, <<" ","-","p"," ","-","t">>, <<" ","-","n">>, <<" ","-","I">>, <<" ","-","n","1">>, <<" ","-","L"," ","2"," ","-","0"," ","-","P"," ","4">>,
      <<" ","-","i"," ","-","n">>, <<" ","-","l"," ","-","s">>, <<" ","-","-","m","a","x","-","a","r","g","s"," ","1">>, <<" ","-","I"," ","r","e","p","l","a","c","e","m","e","n","t","-","s","t","r","i","n","g">>, <<" ","-","0"," ","-","n"," ","l","s"," ","-","r">>, <<" ","-","0"," ","-","n"," ","l","s"," ","-","r"," ","-","n">> }

XargsPayloads ==
    { <<>>, <<" ","g","r","e","p"," ","p","a","t","t","e","r","n">>, <<" ","h","e","a","d">>, <<" ","r","m">>, <<" ","s","h"," ","-","c">>, <<" ","g","i","t"," ","s","t","a","t","u","s">>, <<" ","g","i","t"," ","c","o","m","m","i","t">>,
      <<" ","x","a","r","g","s"," ","l","s">>, <<" ","x","a","r","g","s"," ","-","n"," ","1"," ","r","m">>, <<" ","x","a","r","g","s"," ","g","i","t"," ","s","t","a","t","u","s">>, <<" ","x","a","r","g","s"," ","x","a","r","g","s"," ","l","s">>, <<" ","x","a","r","g","s"," ","-","n"," ","1"," ","x","a","r","g","s"," ","-","0"," ","x","a","r","g","s"," ","r","m">>, <<" ","x","a","r","g","s"," ","-","n">>, <<" ","c","o","n","s","t","r","u","c","t","o","r"," ","x">>, <<" ","l","s"," ","-","l">>, <<" ","g","h"," ","r","e","p","o"," ","v","i","e","w">>,
      <<" ","g","h"," ","r","e","p","o"," ","d","e","l","e","t","e">>, <<" ","k","t","o","o","l","s"," ","y","t","-","t","r","a","n","s","c","r","i","p","t"," ","g","e","t"," ","x">>, <<" ","c","a","t"," ","-","n">> }

XargsCommands ==
    { <<"x","a","r","g","s">> \o f \o p : f \in XargsFlagTexts, p \in XargsPayloads }
    \cup { <<"l","s"," ","|"," ","x","a","r","g","s">> \o f \o p \o <<" ","|"," ","h","e","a","d">> :
             f \in { <<>>, <<" ","-","n"," ","1">>, <<" ","-","I">> }, p \in { <<>>, <<" ","c","a","t">>, <<" ","r","m">> } }

\* Two commands joined by a logical operator, a pipe or a semicolon
JoinedCommands ==
    { <<"l","s">>, <<"g","i","t"," ","l","o","g">>, <<"c","a","t"," ","x"," ","2",">","/","d","e","v","/","n","u","l","l">>, <<"x","a","r","g","s"," ","l","s">>, <<"e","c","h","o"," ","'","a","|","b","'">>, <<"r","m">>, <<"g","i","t"," ","p","u","s","h">>,
      <<"e","c","h","o"," ","\"">>, <<"e","c","h","o"," ","\""," ",";"," ","r","m">>, <<"e","c","h","o"," ","\\">>, <<"e","c","h","o"," ","\"",";","r","m","\"">> }

Connectives == { <<" ","&","&"," ">>, <<" ","|","|"," ">>, <<" ","|"," ">>, <<" ",";"," ">> }

PairCommands ==
    { a \o op \o b : a \in JoinedCommands, op \in Connectives, b \in JoinedCommands }

\* A command with a benign redirect appended
BenignRedirects == { <<" ","2",">","/","d","e","v","/","n","u","l","l">>, <<" ","1",">","/","d","e","v","/","n","u","l","l">>, <<" ","&",">","/","d","e","v","/","n","u","l","l">>, <<" ",">","/","d","e","v","/","n","u","l","l">>, <<" ","2",">","&","1">> }

AppendBases ==
    TestCommands \cup TokenStrings(2)
    \cup { <<"l","s"," ","\\">>, <<"l","s"," ","\\","\\">>, <<"e","c","h","o"," ","\"","x">>, <<"e","c","h","o"," ","'","x">>, <<"l","s"," ","2">>, <<"l","s"," ","1">>, <<"l","s"," ","&">>, <<"l","s"," ","2",">">>, <<"l","s"," ",">">>,
           <<"l","s"," ","2",">","&">>, <<"l","s"," ","&",">">>, <<"l","s"," ","2",">",">">>, <<"c","o","n","s","t","r","u","c","t","o","r"," ","x">>, <<"l","s"," ",";">>, <<"l","s"," ","2",">","&","1">>, <<"r","m"," ",">","/","d","e","v","/","n","u","l","l">>,
           <<"e","c","h","o"," ","\"","$","\"">>, <<"e","c","h","o"," ","\\","$">>, <<"l","s"," ",">","/","d","e","v","/","n","u","l">>, <<"l","s"," "," ">>, <<"l","s","\\","t">> }

AppendedCommands == { c \o r : c \in AppendBases, r \in BenignRedirects }

\* A recognized redirect written into the middle of another one
RedirectTexts ==
    { <<"2",">","/","d","e","v","/","n","u","l","l">>, <<"1",">","/","d","e","v","/","n","u","l","l">>, <<"&",">","/","d","e","v","/","n","u","l","l">>, <<">","/","d","e","v","/","n","u","l","l">>, <<"2",">","&","1">>, <<"2",">",">","&","1">> }

NestedRedirectCommands ==
    { pre \o SubSeq(outer, 1, i) \o inner \o SubSeq(outer, i + 1, Len(outer)) :
        pre \in { <<"l","s"," ">>, <<"l","s">> },
        outer \in RedirectTexts,
        inner \in RedirectTexts,
        i \in 1..3 }

\* Delimiters in front of, behind and between commands
DelimiterCommands ==
    { lead \o a \o mid \o b \o trail :
        lead \in { <<>>, <<";"," ">>, <<"&","&"," ">>, <<" ","|"," ">> },
        a \in { <<"l","s">>, <<"r","m">>, <<"e","c","h","o"," ","'",";","'">> },
        mid \in { <<" ",";"," ",";"," ">>, <<" ",";",";"," ">>, <<" ","&","&"," ",";"," ">>, <<" ","|","\\","t","|"," ">>, <<";"," "," ","&">> },
        b \in { <<"c","a","t">>, <<"r","m">>, <<>> },
        trail \in { <<>>, <<" ",";">>, <<" ","&">>, <<";"," ",";">>, <<" ","|","|"," "," ">> } }
    \cup { <<"l","s"," ",";">>, <<";"," ","l","s">>, <<"l","s"," ",";"," ",";"," ","c","a","t">>, <<"l","s"," ",";"," ","e","c","h","o"," ","\"","x",";","y","\""," ",";",";"," ">>, <<"l","s"," ","&">>, <<"r","m"," ",";">>, <<";"," ","r","m">>, <<";">>, <<" ",";"," ",";"," ">> }

\* The words that a rule reads, followed by further words
ArgumentCommands ==
    { head \o more :
        head \in { <<"f","i","n","d"," ",".">>, <<"l","s">>, <<"g","i","t"," ","b","r","a","n","c","h">>, <<"g","i","t">>, <<"g","i","t"," ","p","u","s","h">>, <<"j","a","r"," ","-","t","f">>, <<"j","a","r">>,
                   <<"g","h"," ","-","-","v","e","r","s","i","o","n">>, <<"g","h"," ","p","r"," ","v","i","e","w">>, <<"g","h"," ","p","r">>, <<"g","h"," ","p","r"," ","m","e","r","g","e">>,
                   <<"k","t","o","o","l","s"," ","y","t","-","t","r","a","n","s","c","r","i","p","t"," ","g","e","t">>, <<"k","t","o","o","l","s"," ","y","t","-","t","r","a","n","s","c","r","i","p","t">>, <<"r","m">>, <<"c","o","n","s","t","r","u","c","t","o","r">>,
                   <<"c","o","n","s","t","r","u","c","t","o","r"," ","x">> },
        more \in { <<>>, <<" ","-","d","e","l","e","t","e">>, <<" ","-","D"," ","x">>, <<" ","-","-","f","o","r","c","e"," ","-","r","f"," ","/">>, <<" ","x"," ","y"," ","z">>, <<" ","s","t","a","t","u","s"," ","l","i","s","t"," ","v","i","e","w">> } }

\* Quoted and escaped arguments that contain whitespace
QuotedWordCommands ==
    { <<"x","a","r","g","s"," ","-","I"," ","\"","x"," ","y","\""," ","l","s">>, <<"x","a","r","g","s"," ","-","I"," ","'","x"," ","l","s","'"," ","r","m">>, <<"x","a","r","g","s"," ","-","n"," ","\"","1"," ","l","s","\""," ","r","m">>, <<"x","a","r","g","s"," ","-","I"," ","\"","x"," ","l","s"," ","-","l","\"">>,
      <<"x","a","r","g","s"," ","-","I"," ","\"","x","\""," ","l","s">>, <<"x","a","r","g","s"," ","-","0"," ","-","I"," ","'","a"," ","b"," ","c","'"," ","c","a","t">>, <<"x","a","r","g","s"," ","\"","-","I","\""," ","x"," ","l","s">>, <<"x","a","r","g","s"," ","-","I"," ","x","\\"," ","y"," ","l","s">>,
      <<"e","c","h","o"," ","\"","a"," "," ","b","\""," ","c">>, <<"e","c","h","o"," ","a","\\"," ","b">>, <<"g","i","t"," ","\"","s","t","a","t","u","s"," ","x","\"">>, <<"g","i","t"," ","'","l","o","g","'"," ","x">>, <<"l","s"," ","'","a"," ","b","'">>, <<"\"","l","s","\""," ","-","l">>,
      <<"g","h"," ","p","r"," ","\"","v","i","e","w"," ","1","\"">>, <<"g","h"," ","\"","p","r"," ","v","i","e","w","\"">>, <<"l","s"," ","'","a"," ","|"," ","g","r","e","p"," ","b","'"," ","|"," ","x","a","r","g","s"," ","-","I"," ","\"","x"," ","y","\""," ","h","e","a","d">> }

Commands ==
    GenericCommands \cup TestCommands \cup FirstWordCommands \cup SubcommandCommands
    \cup RedirectCommands \cup MetaCharCommands \cup EscapedRedirectCommands
    \cup CompoundCommands \cup GhCommands \cup KtoolsCommands
    \cup XargsCommands \cup PairCommands
    \cup AppendedCommands \cup NestedRedirectCommands
    \cup DelimiterCommands \cup ArgumentCommands \cup QuotedWordCommands

\* The longest string handed to advanceParser character by character
MaxScan == 4

ScanAlphabet == { "'", "\"", "\\", "x", ";", "$" }

RECURSIVE ScanStrings(_)
ScanStrings(n) ==
    IF n = 0 THEN { <<>> }
    ELSE LET shorter == ScanStrings(n - 1) IN
         shorter \cup { Append(s, c) : s \in shorter, c \in ScanAlphabet }

ScanCommands == ScanStrings(MaxScan)

\* The most calls of isSafeBashCommand made one after the other
MaxCalls == 3

\* Commands that end inside a quote or behind a backslash, and commands that
\* a quote or a backslash in front of them would change
CallCommands ==
    { <<"l","s">>, <<"r","m">>, <<"e","c","h","o"," ","\"","x">>, <<"e","c","h","o"," ","'","x">>, <<"e","c","h","o"," ","x","\\">>, <<"l","s"," ","$","x">>, <<"l","s"," ",";"," ","r","m">>, <<"e","c","h","o"," ","\"",";","r","m","\"">>,
      <<"l","s"," ","2",">","/","d","e","v","/","n","u","l","l">>, <<"x","a","r","g","s"," ","g","i","t"," ","s","t","a","t","u","s">> }

\* The strings handed to splitShellCommand on its own, dangerous characters included
SplitCommands ==
    GenericCommands \cup TestCommands \cup CompoundCommands \cup MetaCharCommands
    \cup DelimiterCommands

\* The commands of the bash tool calls
HandlerCommands ==
    TestCommands \cup FirstWordCommands \cup { <<>>, <<" ">>, <<";">>, <<"l","s"," ",";">>, <<" ","2",">","/","d","e","v","/","n","u","l","l">> }

ToolNames == { "read", "bash", "edit", "write", "other" }

\* What ctx.ui.select resolves to; "undefined" is a dismissed prompt
Choices == { "Allow", "Skip", "Abort", "undefined" }

BlockResults ==
    { "blocked (no UI for confirmation)", "skipped by user", "aborted by user" }

----------------------------------------------------------------------------
(* The classifier, called on its own (as the tests call it) *)

Init ==
    /\ command \in Commands
    /\ pc = "classify"
    /\ cleanCommand = <<>>
    /\ hasMeta = FALSE
    /\ parts = <<>>
    /\ verdict = "none"
    /\ toolName = "bash"
    /\ hasUI = TRUE
    /\ commandDefined = TRUE
    /\ choice = "none"
    /\ result = "none"
    /\ reason = <<>>
    /\ selectCalls = 0
    /\ abortCalls = 0
    /\ parseState = InitialParseState
    /\ stateBefore = InitialParseState
    /\ scanPos = 0
    /\ isActive = FALSE
    /\ earlier = {}
    /\ calls = 0
    /\ CheckpointsAtRest

\* isSafeBashCommand(command)
Classify ==
    /\ pc = "classify"
    /\ pc' = "classified"
    /\ cleanCommand' = stripRedirects(command)
    /\ hasMeta' = hasShellMetaChars(cleanCommand')
    /\ parts' = IF hasMeta' THEN <<>> ELSE splitShellCommand(cleanCommand')
    /\ verdict' = isSafeBashCommand(command)
    /\ UNCHANGED <<command, toolName, hasUI, commandDefined, choice, result,
                   reason, selectCalls, abortCalls>>
    /\ UNCHANGED <<scanVars, callVars>>
    /\ UNCHANGED checkpointVars

Next == Classify

Spec == Init /\ [][Next]_vars

----------------------------------------------------------------------------
(* The tool_call handler *)

InitHandler ==
    /\ pc = "tool_call"
    /\ toolName \in ToolNames
    /\ hasUI \in BOOLEAN
    /\ commandDefined \in BOOLEAN
    /\ command \in IF toolName = "bash" /\ commandDefined THEN HandlerCommands
                   ELSE { <<>> }
    /\ cleanCommand = <<>>
    /\ hasMeta = FALSE
    /\ parts = <<>>
    /\ verdict = "none"
    /\ choice = "none"
    /\ result = "none"
    /\ reason = <<>>
    /\ selectCalls = 0
    /\ abortCalls = 0
    /\ parseState = InitialParseState
    /\ stateBefore = InitialParseState
    /\ scanPos = 0
    /\ isActive = FALSE
    /\ earlier = {}
    /\ calls = 0
    /\ CheckpointsAtRest

\* The handler up to its return or to the await of ctx.ui.select
ToolCall ==
    /\ pc = "tool_call"
    /\ LET outcome == toolCallOutcome(toolName, hasUI, commandDefined, command)
       IN /\ verdict' = outcome.verdict
          /\ IF outcome.returned # "none"
             THEN /\ result' = outcome.returned
                  /\ reason' = outcome.reason
                  /\ pc' = "returned"
                  /\ selectCalls' = selectCalls
             ELSE /\ result' = result
                  /\ reason' = reason
                  /\ pc' = "select"
                  /\ selectCalls' = selectCalls + 1
    /\ UNCHANGED <<command, cleanCommand, hasMeta, parts, toolName, hasUI,
                   commandDefined, choice, abortCalls>>
    /\ UNCHANGED <<scanVars, callVars>>
    /\ UNCHANGED checkpointVars

\* ctx.ui.select resolves and the handler returns handleChoice(choice, ...)
SelectResolves ==
    /\ pc = "select"
    /\ \E c \in Choices :
         /\ choice' = c
         /\ result' = handleChoice(c, toolName).result
         /\ reason' = handleChoice(c, toolName).reason
         /\ abortCalls' = abortCalls + handleChoice(c, toolName).aborts
    /\ pc' = "returned"
    /\ UNCHANGED <<command, cleanCommand, hasMeta, parts, verdict, toolName, hasUI,
                   commandDefined, selectCalls>>
    /\ UNCHANGED <<scanVars, callVars>>
    /\ UNCHANGED checkpointVars

NextHandler == ToolCall \/ SelectResolves

SpecHandler == InitHandler /\ [][NextHandler]_vars

----------------------------------------------------------------------------
(* advanceParser, called for one character after the other *)

InitScan ==
    /\ command \in ScanCommands
    /\ pc = "scan"
    /\ parseState = InitialParseState
    /\ stateBefore = InitialParseState
    /\ scanPos = 0
    /\ isActive = FALSE
    /\ cleanCommand = <<>>
    /\ hasMeta = FALSE
    /\ parts = <<>>
    /\ verdict = "none"
    /\ toolName = "bash"
    /\ hasUI = TRUE
    /\ commandDefined = TRUE
    /\ choice = "none"
    /\ result = "none"
    /\ reason = <<>>
    /\ selectCalls = 0
    /\ abortCalls = 0
    /\ earlier = {}
    /\ calls = 0
    /\ CheckpointsAtRest

\* const isActive = advanceParser(char, state)
Feed ==
    /\ pc = "scan"
    /\ scanPos < Len(command)
    /\ LET r == advanceParser(command[scanPos + 1], parseState) IN
         /\ parseState' = r.state
         /\ stateBefore' = parseState
         /\ isActive' = r.isActive
    /\ scanPos' = scanPos + 1
    /\ UNCHANGED <<command, cleanCommand, hasMeta, parts, verdict, pc, toolName, hasUI,
                   commandDefined, choice, result, reason, selectCalls, abortCalls>>
    /\ UNCHANGED callVars
    /\ UNCHANGED checkpointVars

NextScan == Feed

SpecScan == InitScan /\ [][NextScan]_vars

----------------------------------------------------------------------------
(* isSafeBashCommand, called for one command after the other *)

InitCalls ==
    /\ command \in CallCommands
    /\ pc = "classify"
    /\ parseState = InitialParseState
    /\ stateBefore = InitialParseState
    /\ scanPos = 0
    /\ isActive = FALSE
    /\ cleanCommand = <<>>
    /\ hasMeta = FALSE
    /\ parts = <<>>
    /\ verdict = "none"
    /\ toolName = "bash"
    /\ hasUI = TRUE
    /\ commandDefined = TRUE
    /\ choice = "none"
    /\ result = "none"
    /\ reason = <<>>
    /\ selectCalls = 0
    /\ abortCalls = 0
    /\ earlier = {}
    /\ calls = 0
    /\ CheckpointsAtRest

\* isSafeBashCommand(command); parseState is the object that its last scan
\* leaves behind
ClassifyCall ==
    /\ pc = "classify"
    /\ pc' = "classified"
    /\ LET start == parseStateOfCall(parseState) IN
         /\ cleanCommand' = stripRedirects(command)
         /\ hasMeta' = hasShellMetaCharsFrom(cleanCommand', 1, start)
         /\ parts' = IF hasMeta' THEN <<>>
                     ELSE splitShellCommandFrom(cleanCommand', 1, start, <<>>, <<>>)
         /\ verdict' = isSafeBashCommandFrom(command, start)
         /\ parseState' = parseStateAfter(cleanCommand', 1, start)
    /\ calls' = calls + 1
    /\ UNCHANGED <<command, toolName, hasUI, commandDefined, choice, result,
                   reason, selectCalls, abortCalls, stateBefore, scanPos, isActive,
                   earlier>>
    /\ UNCHANGED checkpointVars

\* The caller goes on to its next call
NextCall ==
    /\ pc = "classified"
    /\ calls < MaxCalls
    /\ pc' = "classify"
    /\ earlier' = earlier \cup { [command |-> command, verdict |-> verdict] }
    /\ command' \in CallCommands
    /\ UNCHANGED <<cleanCommand, hasMeta, parts, verdict, toolName, hasUI,
                   commandDefined, choice, result, reason, selectCalls, abortCalls,
                   calls>>
    /\ UNCHANGED scanVars
    /\ UNCHANGED checkpointVars

NextCalls == ClassifyCall \/ NextCall

SpecCalls == InitCalls /\ [][NextCalls]_vars

----------------------------------------------------------------------------
(* splitShellCommand, called on its own *)

InitSplit ==
    /\ command \in SplitCommands
    /\ pc = "split"
    /\ parseState = InitialParseState
    /\ stateBefore = InitialParseState
    /\ scanPos = 0
    /\ isActive = FALSE
    /\ cleanCommand = <<>>
    /\ hasMeta = FALSE
    /\ parts = <<>>
    /\ verdict = "none"
    /\ toolName = "bash"
    /\ hasUI = TRUE
    /\ commandDefined = TRUE
    /\ choice = "none"
    /\ result = "none"
    /\ reason = <<>>
    /\ selectCalls = 0
    /\ abortCalls = 0
    /\ earlier = {}
    /\ calls = 0
    /\ CheckpointsAtRest

\* parts = splitShellCommand(command)
Split ==
    /\ pc = "split"
    /\ pc' = "split_done"
    /\ parts' = splitShellCommand(command)
    /\ parseState' = parseStateAfter(command, 1, InitialParseState)
    /\ UNCHANGED <<command, cleanCommand, hasMeta, verdict, toolName, hasUI,
                   commandDefined, choice, result, reason, selectCalls, abortCalls,
                   stateBefore, scanPos, isActive>>
    /\ UNCHANGED callVars
    /\ UNCHANGED checkpointVars

NextSplit == Split

SpecSplit == InitSplit /\ [][NextSplit]_vars


----------------------------------------------------------------------------
(* The /checkpoints command *)

MaxCommands == 2

CommandLines ==
    { <<>>, <<"h","e","l","p">>, <<"l","i","s","t">>, <<"p","u","r","g","e"," ","a">>, <<"s","a","v","e">>, <<"s","a","v","e"," ","a">>, <<"s","a","v","e"," "," ","b"," ">>, <<"s","a","v","e"," ","a"," ","b">>,
      <<"d","e","l","e","t","e">>, <<"d","e","l","e","t","e"," ","a">>, <<" ","d","e","l","e","t","e"," "," ","b">>, <<"d","e","l","e","t","e"," ","c">>, <<"c","o","n","t","i","n","u","e">>, <<"c","o","n","t","i","n","u","e"," ","a">>, <<"c","o","n","t","i","n","u","e"," ","c">> }

PromptFiles == { {}, { <<"d","e","f","a","u","l","t">> } }

MessageCounts == { 0, 2 }

GeneratedContents == { <<>>, <<"n","e","x","t"," ","s","t","e","p","s">> }

InitialCheckpointFiles ==
    { [f \in dir |-> <<"e","a","r","l","i","e","r"," ","n","o","t","e","s">>] : dir \in { {}, { <<"a",".","m","d">> }, { <<"a",".","m","d">>, <<"b",".","m","d">> } } }

InitCheckpoints ==
    /\ pc = "idle"
    /\ checkpointFiles \in InitialCheckpointFiles
    /\ args = <<>>
    /\ handlerLocals = NoLocals
    /\ notified = "none"
    /\ editorText = <<>>
    /\ commands = 0
    /\ command = <<>>
    /\ parseState = InitialParseState
    /\ stateBefore = InitialParseState
    /\ scanPos = 0
    /\ isActive = FALSE
    /\ cleanCommand = <<>>
    /\ hasMeta = FALSE
    /\ parts = <<>>
    /\ verdict = "none"
    /\ toolName = "bash"
    /\ hasUI = TRUE
    /\ commandDefined = TRUE
    /\ choice = "none"
    /\ result = "none"
    /\ reason = <<>>
    /\ selectCalls = 0
    /\ abortCalls = 0
    /\ earlier = {}
    /\ calls = 0

gateVars ==
    <<command, cleanCommand, hasMeta, parts, verdict, toolName, hasUI, commandDefined,
      choice, result, reason, selectCalls, abortCalls, scanVars, callVars>>

\* The handler has run up to an await or to its return
Reaches(outcome) ==
    /\ pc' = outcome.pc
    /\ checkpointFiles' = outcome.files
    /\ handlerLocals' = outcome.locals
    /\ notified' = outcome.notified

\* The user gives a /checkpoints command
CheckpointsCommand ==
    /\ pc = "idle"
    /\ commands < MaxCommands
    /\ commands' = commands + 1
    /\ \E a \in CommandLines, prompts \in PromptFiles :
         /\ args' = a
         /\ Reaches(checkpointsHandler(checkpointFiles, a, prompts, notified))
         /\ editorText' = IF actionOf(a) = <<"c","o","n","t","i","n","u","e">>
                          THEN setEditorText(checkpointFiles, trim(restOf(a)), editorText)
                          ELSE editorText
    /\ UNCHANGED gateVars

\* ctx.ui.select("Choose prompt:") resolves
SaveSelectResolves ==
    /\ pc = "save_select"
    /\ \E selected \in handlerLocals.prompts \cup { <<>> },
          messages \in MessageCounts, model \in { "model", "undefined" } :
         Reaches(saveHandlerSelected(checkpointFiles, handlerLocals, selected,
                                     messages, model, notified))
    /\ UNCHANGED <<args, editorText, commands, gateVars>>

\* ctx.ui.confirm("Overwrite?") resolves
SaveConfirmResolves ==
    /\ pc = "save_confirm"
    /\ \E ok \in { "true", "false" }, model \in { "model", "undefined" } :
         Reaches(saveHandlerConfirmed(checkpointFiles, handlerLocals, ok, model, notified))
    /\ UNCHANGED <<args, editorText, commands, gateVars>>

\* ctx.modelRegistry.getApiKey resolves
SaveApiKeyResolves ==
    /\ pc = "save_getApiKey"
    /\ \E apiKey \in { "key", "undefined" } :
         Reaches(saveHandlerApiKey(checkpointFiles, handlerLocals, apiKey, notified))
    /\ UNCHANGED <<args, editorText, commands, gateVars>>

\* complete returns a response or throws
SaveCompleteResolves ==
    /\ pc = "save_complete"
    /\ \E response \in { "returned", "thrown" }, content \in GeneratedContents :
         Reaches(saveHandlerCompleted(checkpointFiles, handlerLocals, response, content))
    /\ UNCHANGED <<args, editorText, commands, gateVars>>

\* showMarkdownDialog is closed, or throws
DialogEnds ==
    /\ pc \in { "save_dialog", "help_dialog" }
    /\ \E dialog \in { "closed", "thrown" } :
         Reaches(showMarkdownDialogEnded(checkpointFiles, handlerLocals, pc,
                                         dialog, notified))
    /\ UNCHANGED <<args, editorText, commands, gateVars>>

\* ctx.ui.confirm("Confirm Delete") resolves
DeleteConfirmResolves ==
    /\ pc = "delete_confirm"
    /\ \E ok \in { "true", "false" } :
         Reaches(deleteHandlerConfirmed(checkpointFiles, handlerLocals, ok, notified))
    /\ UNCHANGED <<args, editorText, commands, gateVars>>

\* ctx.ui.select("Choose checkpoint:") resolves
ContinueSelectResolves ==
    /\ pc = "continue_select"
    /\ \E selected \in getSavedCheckpoints(checkpointFiles) \cup { <<>> } :
         /\ Reaches(continueHandlerSelected(checkpointFiles, selected, notified))
         /\ editorText' = setEditorText(checkpointFiles, selected, editorText)
    /\ UNCHANGED <<args, commands, gateVars>>

NextCheckpoints ==
    \/ CheckpointsCommand
    \/ SaveSelectResolves
    \/ SaveConfirmResolves
    \/ SaveApiKeyResolves
    \/ SaveCompleteResolves
    \/ DialogEnds
    \/ DeleteConfirmResolves
    \/ ContinueSelectResolves

SpecCheckpoints == InitCheckpoints /\ [][NextCheckpoints]_vars
----------------------------------------------------------------------------
(* What the claims speak of: active characters, segments, redirects *)

\* The number of backslashes that end at position j
RECURSIVE BackslashRun(_, _)
BackslashRun(s, j) ==
    IF j >= 1 /\ s[j] = "\\" THEN 1 + BackslashRun(s, j - 1) ELSE 0

\* The character at i follows an escaping backslash
EscapedAt(s, i) == BackslashRun(s, i - 1) % 2 = 1

QuoteAfter(q, c) ==
    CASE c = "'" /\ q = "none" -> "single"
      [] c = "'" /\ q = "single" -> "none"
      [] c = "\"" /\ q = "none" -> "double"
      [] c = "\"" /\ q = "double" -> "none"
      [] OTHER -> q

\* The quote that is open behind the characters lo..hi of s when q is open
\* in front of them
RECURSIVE QuoteThrough(_, _, _, _)
QuoteThrough(s, lo, hi, q) ==
    IF lo > hi THEN q
    ELSE IF lo = hi THEN IF EscapedAt(s, lo) THEN q ELSE QuoteAfter(q, s[lo])
    ELSE LET mid == (lo + hi) \div 2
             left == QuoteThrough(s, lo, mid, q)
         IN IF left = "none" THEN QuoteThrough(s, mid + 1, hi, "none")
            ELSE QuoteThrough(s, mid + 1, hi, left)

\* The quote that is open in front of position i
QuoteBefore(s, i) == QuoteThrough(s, 1, i - 1, "none")

\* Outside quotes, not escaped, and no quote or backslash itself
ActiveAt(s, i) ==
    /\ ~EscapedAt(s, i)
    /\ s[i] \notin {"\\", "'", "\""}
    /\ QuoteBefore(s, i) = "none"

ActivePositions(s, chars) ==
    { i \in 1..Len(s) : s[i] \in chars /\ ActiveAt(s, i) }

\* The positions of chars that are quoted or escaped
InactivePositions(s, chars) ==
    { i \in 1..Len(s) : s[i] \in chars /\ ~ActiveAt(s, i) }

RECURSIVE Ascending(_)
Ascending(S) ==
    IF S = {} THEN <<>>
    ELSE LET m == CHOOSE x \in S : \A y \in S : x <= y IN
         <<m>> \o Ascending(S \ {m})

NotEmpty(s) == s # <<>>

\* The text between the active operator characters of s, trimmed, in order,
\* without what is empty
SegmentsOf(s) ==
    LET cut == ActivePositions(s, OperatorChars)
        starts == Ascending({ i \in 1..Len(s) :
                                i \notin cut /\ (i = 1 \/ i - 1 \in cut) })
        endOf(a) == CHOOSE b \in a..Len(s) :
                        /\ \A j \in a..b : j \notin cut
                        /\ b = Len(s) \/ b + 1 \in cut
    IN SelectSeq([k \in 1..Len(starts) |->
                     trim(SubSeq(s, starts[k], endOf(starts[k])))], NotEmpty)

\* The results of the five policies for a segment
PolicyResults(segment) ==
    { applyPolicy(policyChecks, policyChecks[k], splitWords(segment)) :
        k \in 1..Len(policyChecks) }

Accepted(segment) == "true" \in PolicyResults(segment)

Rejected(segment) == PolicyResults(segment) = { "false" }

AllAccepted(segments) == \A k \in 1..Len(segments) : Accepted(segments[k])

FirstWord(segment) == splitWords(segment)[1]

\* The word that follows position i: whitespace skipped, up to the next
\* whitespace, operator, redirect or parenthesis
WordBreaks == Whitespace \cup OperatorChars \cup {"<", ">", "(", ")"}

RECURSIVE WordEnd(_, _)
WordEnd(s, p) ==
    IF p <= Len(s) /\ s[p] \notin WordBreaks THEN WordEnd(s, p + 1) ELSE p - 1

RECURSIVE WordStart(_, _)
WordStart(s, p) ==
    IF p <= Len(s) /\ s[p] \in Whitespace THEN WordStart(s, p + 1) ELSE p

RedirectTarget(s, i) ==
    SubSeq(s, WordStart(s, i + 1), WordEnd(s, WordStart(s, i + 1)))

PlainWord(word) == \A j \in 1..Len(word) : word[j] \notin {"\\", "'", "\""}

\* The active > of s that write to a path other than /dev/null (neither the
\* first > of >> nor a descriptor copy >&; the path spelled without quotes
\* or backslashes)
RedirectsElsewhere(s) ==
    { i \in ActivePositions(s, {">"}) :
        /\ ~(i < Len(s) /\ s[i + 1] \in {">", "&"})
        /\ PlainWord(RedirectTarget(s, i))
        /\ RedirectTarget(s, i) # <<"/","d","e","v","/","n","u","l","l">> }

\* No quote is left open and no backslash is left pending at the end of s
WellFormed(s) ==
    QuoteBefore(s, Len(s) + 1) = "none" /\ ~EscapedAt(s, Len(s) + 1)

Occurrences(s, char) == Cardinality({ i \in 1..Len(s) : s[i] = char })

Classified == pc = "classified"

----------------------------------------------------------------------------
(* Claims *)

\* C1: isSafeBashCommand returns true only if the normalized command has no
\* active dangerous character and every segment of it is accepted by at least
\* one policy; a command with a segment that every policy rejects is not safe.
C1_SafeOnlyIfCleanAndAllSegmentsAccepted ==
    Classified =>
        /\ verdict = "true" =>
              /\ ActivePositions(cleanCommand, DangerousChars) = {}
              /\ AllAccepted(SegmentsOf(cleanCommand))
        /\ (\E k \in 1..Len(SegmentsOf(cleanCommand)) :
               Rejected(SegmentsOf(cleanCommand)[k])) => verdict # "true"

\* C1 witness: a command without dangerous characters whose first segment is
\* accepted and whose second segment (sh) is rejected by every policy
C1_Witness ==
    /\ Classified
    /\ command = <<"c","u","r","l"," ","e","v","i","l",".","c","o","m"," ","|"," ","s","h">>
    /\ parts = << <<"c","u","r","l"," ","e","v","i","l",".","c","o","m">>, <<"s","h">> >>
    /\ Rejected(parts[2])
    /\ verdict = "false"

\* C2 (as claimed): a call to a tool other than read proceeds only for a bash
\* command the classifier accepts or after "Allow"; on every other path the
\* handler returns a block result.
C2_ProceedsOnlySafeOrAllowedElseBlocks ==
    (pc = "returned" /\ toolName # "read") =>
        LET proceeds == (toolName = "bash" /\ verdict = "true") \/ choice = "Allow" IN
        /\ result = "undefined" => proceeds
        /\ ~proceeds => result \in BlockResults

\* C3 (as claimed): a command with an active < > ` $ ( { } is classified unsafe.
C3Chars == {"<", ">", "backtick", "$", "(", "{", "}"}

C3_ActiveMetaCharInCommandIsUnsafe ==
    (Classified /\ ActivePositions(command, C3Chars) # {}) => verdict = "false"

\* C3 (amended): a command whose redirect-normalized form has an active
\* < > ` $ ( { } is classified unsafe.
C3_ActiveMetaCharAfterNormalizationIsUnsafe ==
    (Classified /\ ActivePositions(cleanCommand, C3Chars) # {}) => verdict = "false"

\* C3 witness: an active brace that no normalization removes
C3_Witness ==
    /\ Classified
    /\ command = <<"l","s"," ","{","a",",","b",",","c","}">>
    /\ ActivePositions(cleanCommand, C3Chars) = {4, 10}
    /\ verdict = "false"

\* C4 (as claimed): isSafeBashCommand ends with true or false for every input
\* and never throws.
C4_AlwaysBooleanNeverThrows ==
    Classified => verdict \in { "true", "false" }

\* C5 (as claimed): a normalized command without segments is classified unsafe.
C5_NoSegmentsIsUnsafe ==
    (Classified /\ SegmentsOf(cleanCommand) = <<>>) => verdict = "false"

\* C6 (as claimed): hasShellMetaChars reports exactly the active dangerous
\* characters, and a command (with its quotes closed) whose dangerous
\* characters are all quoted or escaped is classified by the policy results
\* of its segments.
C6_QuotedOrEscapedMetaCharsDoNotCount ==
    Classified =>
        /\ hasMeta <=> ActivePositions(cleanCommand, DangerousChars) # {}
        /\ (WellFormed(command) /\ ActivePositions(command, DangerousChars) = {}) =>
              (verdict = "true" <=> AllAccepted(SegmentsOf(cleanCommand)))

\* C7 (as claimed): every redirect to a path other than /dev/null keeps its >
\* in the normalized command, and the command is classified unsafe.
C7_OtherRedirectsStayAndAreUnsafe ==
    (Classified /\ RedirectsElsewhere(command) # {}) =>
        /\ Occurrences(cleanCommand, ">") >= Cardinality(RedirectsElsewhere(command))
        /\ verdict = "false"

\* C8: splitShellCommand cuts exactly at the active | ; & characters: quoted
\* and escaped operator characters stay in the segment text, and a run of
\* operator characters is one boundary.
C8_SplitsExactlyAtActiveOperators ==
    (Classified /\ ~hasMeta) =>
        /\ parts = SegmentsOf(cleanCommand)
        /\ cleanCommand = <<"a"," ",";"," ","b"," ","|"," ","c">> => parts = << <<"a">>, <<"b">>, <<"c">> >>
        /\ cleanCommand = <<"e","c","h","o"," ","\"","x",";","y","\""," ",";"," ","l","s">> => parts = << <<"e","c","h","o"," ","\"","x",";","y","\"">>, <<"l","s">> >>

\* C8 witness: a quoted operator character that is kept, next to an active
\* run of two operator characters that cuts once
C8_Witness ==
    /\ Classified
    /\ command = <<"e","c","h","o"," ","\"","x",";","y","\"","&","&","r","m">>
    /\ InactivePositions(cleanCommand, OperatorChars) = {8}
    /\ ActivePositions(cleanCommand, OperatorChars) = {11, 12}
    /\ parts = << <<"e","c","h","o"," ","\"","x",";","y","\"">>, <<"r","m">> >>

\* C9 (as claimed): a segment whose first word is in safeBashCommands is safe
\* whatever follows; a segment whose first word is in no list and is not git,
\* jar, gh, ktools or xargs is rejected by every policy and the command is unsafe.
ListedFirstWords ==
    safeBashCommands \cup { <<"g","i","t">>, <<"j","a","r">>, <<"g","h">>, <<"k","t","o","o","l","s">>, <<"x","a","r","g","s">> }

C9_FirstWordDecides ==
    (Classified /\ ~hasMeta) =>
        \A k \in 1..Len(parts) :
            /\ FirstWord(parts[k]) \in safeBashCommands
                  => isCommandSafe(parts[k]) = "true"
            /\ FirstWord(parts[k]) \notin ListedFirstWords
                  => Rejected(parts[k]) /\ verdict = "false"

\* C10: the subcommand rule accepts a segment iff its first word is git or jar
\* and its second word exists and is in the set of that first word; a git or
\* jar segment with no second word or another second word is rejected by it.
SubcommandPermitted(words) ==
    /\ Len(words) >= 2
    /\ \/ words[1] = <<"g","i","t">> /\ words[2] \in safeSubcommands[<<"g","i","t">>]
       \/ words[1] = <<"j","a","r">> /\ words[2] \in safeSubcommands[<<"j","a","r">>]

C10_SubcommandRule ==
    (Classified /\ ~hasMeta) =>
        \A k \in 1..Len(parts) :
            LET words == splitWords(parts[k]) IN
            /\ checkSafeSubcommand(words) = "true" <=> SubcommandPermitted(words)
            /\ (words[1] \in { <<"g","i","t">>, <<"j","a","r">> } /\ ~SubcommandPermitted(words))
                  => checkSafeSubcommand(words) = "false"
            /\ (words[1] \in { <<"g","i","t">>, <<"j","a","r">> } /\ Len(parts) = 1)
                  => (verdict = "true" <=> SubcommandPermitted(words))

\* C10 witness: git with a permitted second word, accepted by the rule
C10_Witness ==
    /\ Classified
    /\ command = <<"g","i","t"," ","l","o","g"," ","-","p">>
    /\ checkSafeSubcommand(splitWords(parts[1])) = "true"
    /\ verdict = "true"

\* C11: the gh rule accepts a segment iff its first word is gh and its second
\* word is --version, or its second word is in safeGhResources and its third in
\* safeGhActions; any other second word that starts with -- is rejected even
\* in front of a permitted resource and action, and so is a missing third word.
GhPermitted(words) ==
    /\ Len(words) >= 2
    /\ words[1] = <<"g","h">>
    /\ \/ words[2] = <<"-","-","v","e","r","s","i","o","n">>
       \/ /\ Len(words) >= 3
          /\ words[2] \in safeGhResources
          /\ words[3] \in safeGhActions

DoubleDashWord(word) == Len(word) >= 2 /\ word[1] = "-" /\ word[2] = "-"

C11_GhRule ==
    (Classified /\ ~hasMeta) =>
        \A k \in 1..Len(parts) :
            LET words == splitWords(parts[k]) IN
            /\ checkSafeGhCommand(words) = "true" <=> GhPermitted(words)
            /\ ~GhPermitted(words) => checkSafeGhCommand(words) = "false"
            /\ ( /\ words[1] = <<"g","h">>
                 /\ \/ Len(words) <= 2
                    \/ DoubleDashWord(words[2]) )
                  => (isCommandSafe(parts[k]) = "true"
                         <=> (Len(words) >= 2 /\ words[2] = <<"-","-","v","e","r","s","i","o","n">>))
            /\ (words[1] = <<"g","h">> /\ Len(parts) = 1)
                  => (verdict = "true" <=> GhPermitted(words))

\* C11 witness: a permitted resource and action behind a -- word other than
\* --version, rejected
C11_Witness ==
    /\ Classified
    /\ command = <<"g","h"," ","-","-","r","e","p","o"," ","p","r"," ","v","i","e","w">>
    /\ parts = << <<"g","h"," ","-","-","r","e","p","o"," ","p","r"," ","v","i","e","w">> >>
    /\ checkSafeGhCommand(splitWords(parts[1])) = "false"
    /\ verdict = "false"

\* C12: the ktools rule accepts a segment iff its first word is ktools, its
\* second word is in safeKtoolsTools and its third in safeKtoolsActions; an
\* unknown tool, an unlisted action and a missing action are rejected, and
\* the words after the third never change the result.
KtoolsPermitted(words) ==
    /\ Len(words) >= 3
    /\ words[1] = <<"k","t","o","o","l","s">>
    /\ words[2] \in safeKtoolsTools
    /\ words[3] \in safeKtoolsActions

FirstThree(words) == SubSeq(words, 1, IF Len(words) < 3 THEN Len(words) ELSE 3)

C12_KtoolsRule ==
    (Classified /\ ~hasMeta) =>
        \A k \in 1..Len(parts) :
            LET words == splitWords(parts[k]) IN
            /\ checkSafeKtoolsCommand(words) = "true" <=> KtoolsPermitted(words)
            /\ ~KtoolsPermitted(words) => checkSafeKtoolsCommand(words) = "false"
            /\ checkSafeKtoolsCommand(words) = checkSafeKtoolsCommand(FirstThree(words))
            /\ (words[1] = <<"k","t","o","o","l","s">> /\ Len(parts) = 1)
                  => (verdict = "true" <=> KtoolsPermitted(FirstThree(words)))

\* C12 witness: a permitted tool and action in front of words that would not
\* be permitted as an action, accepted
C12_Witness ==
    /\ Classified
    /\ command = <<"k","t","o","o","l","s"," ","y","t","-","t","r","a","n","s","c","r","i","p","t"," ","l","i","s","t"," ","d","e","l","e","t","e"," ","x">>
    /\ checkSafeKtoolsCommand(splitWords(parts[1])) = "true"
    /\ verdict = "true"

\* C13: in an xargs segment the words that start with - and directly follow
\* xargs are skipped, each of -I -i -n -s -P -L -l together with the one word
\* behind it and every other such word alone; the segment is safe iff the
\* words that remain, joined by spaces, are accepted by the policy pipeline.
ArgumentFlags == { <<"-","I">>, <<"-","i">>, <<"-","n">>, <<"-","s">>, <<"-","P">>, <<"-","L">>, <<"-","l">> }

\* The words behind xargs: whether a flag lacks its argument, and the words
\* that remain behind the flags and their arguments
RECURSIVE XargsScan(_)
XargsScan(ws) ==
    IF ws = <<>> THEN [missing |-> FALSE, rest |-> <<>>]
    ELSE IF Head(ws)[1] # "-" THEN [missing |-> FALSE, rest |-> ws]
    ELSE IF Head(ws) \notin ArgumentFlags THEN XargsScan(Tail(ws))
    ELSE IF Len(ws) = 1 THEN [missing |-> TRUE, rest |-> <<>>]
    ELSE XargsScan(Tail(Tail(ws)))

XargsRest(words) == XargsScan(Tail(words)).rest

C13_XargsRule ==
    (Classified /\ ~hasMeta) =>
        \A k \in 1..Len(parts) :
            LET words == splitWords(parts[k]) IN
            words[1] = <<"x","a","r","g","s">> =>
                LET accepted == /\ XargsRest(words) # <<>>
                                /\ isCommandSafe(join(XargsRest(words))) = "true" IN
                /\ checkSafeXargsCommand(policyChecks, words) = "true" <=> accepted
                /\ isCommandSafe(parts[k]) = "true" <=> accepted
                /\ Len(parts) = 1 => (verdict = "true" <=> accepted)

\* C13 witness: two flags with their arguments and one without are skipped,
\* the words that remain are accepted
C13_Witness ==
    /\ Classified
    /\ command = <<"x","a","r","g","s"," ","-","L"," ","2"," ","-","0"," ","-","P"," ","4"," ","c","a","t"," ","-","n">>
    /\ XargsRest(splitWords(parts[1])) = << <<"c","a","t">>, <<"-","n">> >>
    /\ verdict = "true"

\* C14: an xargs segment in which one of the flags -I -i -n -s -P -L -l of
\* xargs is the last word, or in which no word remains behind the flags and
\* their arguments, is unsafe: xargs, xargs -I, xargs -n and
\* xargs -I replacement-string are.
C14_XargsWithoutCommandIsUnsafe ==
    (Classified /\ ~hasMeta) =>
        /\ \A k \in 1..Len(parts) :
              LET words == splitWords(parts[k]) IN
              ( /\ words[1] = <<"x","a","r","g","s">>
                /\ \/ XargsScan(Tail(words)).missing
                   \/ XargsRest(words) = <<>> )
                 => /\ checkSafeXargsCommand(policyChecks, words) = "false"
                    /\ isCommandSafe(parts[k]) = "false"
                    /\ verdict # "true"
                    /\ Len(parts) = 1 => verdict = "false"
        /\ command \in { <<"x","a","r","g","s">>, <<"x","a","r","g","s"," ","-","I">>, <<"x","a","r","g","s"," ","-","n">>, <<"x","a","r","g","s"," ","-","I"," ","r","e","p","l","a","c","e","m","e","n","t","-","s","t","r","i","n","g">> }
              => verdict = "false"

\* C14 witness: -n takes ls for its argument, the second -n is the last word and lacks its own
C14_Witness ==
    /\ Classified
    /\ command = <<"x","a","r","g","s"," ","-","0"," ","-","n"," ","l","s"," ","-","r"," ","-","n">>
    /\ XargsScan(Tail(splitWords(parts[1]))).missing
    /\ verdict = "false"

\* C15 (as claimed): for any two commands A and B that isSafeBashCommand
\* accepts, A && B, A || B, A | B and A ; B are accepted.
C15_CompoundOfAcceptedIsAccepted ==
    Classified =>
        \A a \in JoinedCommands, b \in JoinedCommands, op \in Connectives :
            ( /\ command = a \o op \o b
              /\ isSafeBashCommand(a) = "true"
              /\ isSafeBashCommand(b) = "true" ) => verdict = "true"

\* C16: a command that is c followed by one of the benign redirects
\* " 2>/dev/null", " 1>/dev/null", " &>/dev/null", " >/dev/null", " 2>&1" has
\* the verdict of c; a safe c stays safe although the appended text has a >.
EndsWith(s, suffix) ==
    Len(s) >= Len(suffix) /\ SubSeq(s, Len(s) - Len(suffix) + 1, Len(s)) = suffix

WithoutSuffix(s, suffix) == SubSeq(s, 1, Len(s) - Len(suffix))

C16_AppendedBenignRedirectKeepsVerdict ==
    Classified =>
        \A r \in BenignRedirects :
            EndsWith(command, r) =>
                verdict = isSafeBashCommand(WithoutSuffix(command, r))

\* C16 witness: a safe command of two segments with 2>&1 appended, safe
C16_Witness ==
    /\ Classified
    /\ command = <<"g","i","t"," ","l","o","g"," ","|"," ","h","e","a","d"," ","-","n"," ","1","0"," ","2",">","&","1">>
    /\ isSafeBashCommand(<<"g","i","t"," ","l","o","g"," ","|"," ","h","e","a","d"," ","-","n"," ","1","0">>) = "true"
    /\ ActivePositions(command, {">"}) # {}
    /\ verdict = "true"

\* C17 (as claimed): redirect normalization is idempotent: normalizing the
\* normalized command leaves it as it is.
C17_NormalizationIsIdempotent ==
    Classified => stripRedirects(cleanCommand) = cleanCommand

\* C18: isCommandSafe gives the same result for every ordering of the five
\* policies in policyChecks, also where the xargs rule calls the pipeline again.
Orderings ==
    { [i \in 1..Len(policyChecks) |-> policyChecks[p[i]]] :
        p \in Permutations(1..Len(policyChecks)) }

C18_PolicyOrderDoesNotMatter ==
    (Classified /\ ~hasMeta) =>
        \A k \in 1..Len(parts) :
            LET inOrder == isCommandSafe(parts[k]) IN
            \A order \in Orderings :
                LET reordered == isCommandSafeWith(order, parts[k]) IN
                /\ reordered = inOrder
                /\ Len(parts) = 1 => verdict = reordered

\* C18 witness: a segment that only the xargs rule accepts, through a second
\* xargs and the subcommand rule, accepted with the xargs rule first and the
\* subcommand rule last
C18_Witness ==
    /\ Classified
    /\ command = <<"x","a","r","g","s"," ","-","n"," ","1"," ","x","a","r","g","s"," ","g","i","t"," ","s","t","a","t","u","s">>
    /\ Cardinality(Orderings) = 120
    /\ isCommandSafeWith(<< "checkSafeXargsCommand", "checkSafeKtoolsCommand",
                            "checkSafeGhCommand", "checkSimpleSafeCommand",
                            "checkSafeSubcommand" >>, parts[1]) = "true"
    /\ verdict = "true"

\* C19: when ctx.ui.select has resolved, "Allow" makes the handler return
\* undefined without a call of ctx.abort, "Skip" makes it return a block with
\* the reason "<tool> skipped by user" without a call of ctx.abort, and every
\* other outcome ("Abort", a dismissed prompt) makes it call ctx.abort once
\* and return a block with the reason "<tool> aborted by user".
C19_ChoiceDecidesResult ==
    (pc = "returned" /\ selectCalls = 1) =>
        /\ choice = "Allow" =>
              /\ result = "undefined"
              /\ reason = <<>>
              /\ abortCalls = 0
        /\ choice = "Skip" =>
              /\ result \in BlockResults
              /\ reason = <<toolName, " skipped by user">>
              /\ abortCalls = 0
        /\ choice \notin { "Allow", "Skip" } =>
              /\ choice \in { "Abort", "undefined" }
              /\ result \in BlockResults
              /\ reason = <<toolName, " aborted by user">>
              /\ abortCalls = 1

\* C19 witness: the prompt for an edit is dismissed
C19_Witness ==
    /\ pc = "returned"
    /\ toolName = "edit"
    /\ selectCalls = 1
    /\ choice = "undefined"
    /\ reason = <<"edit", " aborted by user">>
    /\ abortCalls = 1

Scanning == pc = "scan"

C22_QuoteFlagsExclusiveEscapeLastsOneCharacter ==
    Scanning =>
        /\ ~(parseState.inSingleQuote /\ parseState.inDoubleQuote)
        /\ parseState.escaped
              <=> ( /\ scanPos >= 1
                    /\ command[scanPos] = "\\"
                    /\ ~EscapedAt(command, scanPos) )
        /\ (scanPos >= 1 /\ stateBefore.escaped) => ~parseState.escaped

\* C22 witness: the second of two backslashes is escaped and leaves no escape
\* pending, inside a double quote
C22_Witness ==
    /\ Scanning
    /\ command = <<"\"","\\","\\","'">>
    /\ scanPos = 3
    /\ stateBefore.escaped
    /\ parseState = [inSingleQuote |-> FALSE, inDoubleQuote |-> TRUE, escaped |-> FALSE]

\* C23: advanceParser looks at escape-pending and at the backslash before it
\* looks at the quotes: the character behind a backslash is reported
\* inactive and changes no quote flag, and a backslash sets escape-pending
\* inside single and double quotes as well.
C23_EscapeComesBeforeQuotes ==
    (Scanning /\ scanPos >= 1) =>
        /\ stateBefore.escaped =>
              /\ ~isActive
              /\ parseState = [stateBefore EXCEPT !.escaped = FALSE]
        /\ (~stateBefore.escaped /\ command[scanPos] = "\\") =>
              /\ ~isActive
              /\ parseState = [stateBefore EXCEPT !.escaped = TRUE]

\* C23 witness: \' inside a single-quoted string does not close the quote
C23_Witness ==
    /\ Scanning
    /\ command = <<"'","\\","'","x">>
    /\ scanPos = 3
    /\ stateBefore = [inSingleQuote |-> TRUE, inDoubleQuote |-> FALSE, escaped |-> TRUE]
    /\ parseState = [inSingleQuote |-> TRUE, inDoubleQuote |-> FALSE, escaped |-> FALSE]
    /\ ~isActive

\* C24: a single quote met inside double quotes and a double quote met inside
\* single quotes change no quote flag and are reported inactive; an open
\* quote is closed only by a quote character of its kind that is not escaped.
C24_OtherQuoteIsOrdinaryInsideQuotes ==
    (Scanning /\ scanPos >= 1) =>
        /\ ( /\ ~stateBefore.escaped
             /\ \/ command[scanPos] = "'" /\ stateBefore.inDoubleQuote
                \/ command[scanPos] = "\"" /\ stateBefore.inSingleQuote )
              => (parseState = stateBefore /\ ~isActive)
        /\ (stateBefore.inSingleQuote /\ ~parseState.inSingleQuote)
              => (command[scanPos] = "'" /\ ~stateBefore.escaped)
        /\ (stateBefore.inDoubleQuote /\ ~parseState.inDoubleQuote)
              => (command[scanPos] = "\"" /\ ~stateBefore.escaped)

\* C24 witness: a double quote inside single quotes
C24_Witness ==
    /\ Scanning
    /\ command = <<"'","\"","'",";">>
    /\ scanPos = 2
    /\ stateBefore.inSingleQuote
    /\ parseState = stateBefore
    /\ ~parseState.inDoubleQuote
    /\ ~isActive

\* C25: the segments that are empty after trimming are dropped and do not
\* make the verdict unsafe: a command with a delimiter in front, at its end or
\* repeated (ls ; and ; ls and ls ; ; cat and ls &) is classified from its
\* segments that are not empty.
\* The text between one active operator character and the next, trimmed,
\* for every operator character, empty text included
PiecesOf(s) ==
    LET cut == Ascending(ActivePositions(s, OperatorChars))
        from(k) == IF k = 1 THEN 1 ELSE cut[k - 1] + 1
        to(k) == IF k = Len(cut) + 1 THEN Len(s) ELSE cut[k] - 1
    IN [k \in 1..(Len(cut) + 1) |-> trim(SubSeq(s, from(k), to(k)))]

C25_EmptySegmentsAreDropped ==
    (Classified /\ ~hasMeta) =>
        /\ parts = SelectSeq(PiecesOf(cleanCommand), NotEmpty)
        /\ verdict = "true" <=> AllAccepted(SelectSeq(PiecesOf(cleanCommand), NotEmpty))
        /\ command \in { <<"l","s"," ",";">>, <<";"," ","l","s">>, <<"l","s"," ",";"," ",";"," ","c","a","t">>, <<"l","s"," ","&">> } => verdict = "true"

\* C25 witness: an empty segment between two delimiters, dropped
C25_Witness ==
    /\ Classified
    /\ command = <<"l","s"," ",";"," ",";"," ","c","a","t">>
    /\ PiecesOf(cleanCommand) = << <<"l","s">>, <<>>, <<"c","a","t">> >>
    /\ parts = << <<"l","s">>, <<"c","a","t">> >>
    /\ verdict = "true"

\* C26: every segment that splitShellCommand returns is not empty, begins and
\* ends with a character that is not whitespace and, scanned from a fresh
\* parse state, has no active | ; or &; there is at most one segment more
\* than there are runs of active operator characters; and nothing but active
\* operator characters and trimmed whitespace is lost from the input.
OperatorRuns(s) ==
    LET cut == ActivePositions(s, OperatorChars) IN
    Cardinality({ i \in cut : i - 1 \notin cut })

SplitDone == pc = "split_done"

C26_SegmentsAreCleanAndComplete ==
    SplitDone =>
        /\ \A k \in 1..Len(parts) :
              /\ parts[k] # <<>>
              /\ parts[k][1] \notin Whitespace
              /\ parts[k][Len(parts[k])] \notin Whitespace
              /\ ActivePositions(parts[k], OperatorChars) = {}
        /\ Len(parts) <= OperatorRuns(command) + 1
        /\ parts = SelectSeq(PiecesOf(command), NotEmpty)

\* C26 witness: two runs of active operator characters, a quoted operator
\* character and whitespace around the segments
C26_Witness ==
    /\ SplitDone
    /\ command = <<"l","s"," ",";"," ","e","c","h","o"," ","\"","x",";","y","\""," ",";",";"," ">>
    /\ OperatorRuns(command) = 2
    /\ parts = << <<"l","s">>, <<"e","c","h","o"," ","\"","x",";","y","\"">> >>

\* C27: classification ends for every command, forwarding nested to any
\* depth included (xargs xargs ... ls): every call of isCommandSafe that the
\* xargs rule makes gets fewer words than the rule was called with.
\* The words handed on by the xargs rule, <<>> where it makes no call
Forwarded(words) ==
    IF words = <<>> \/ words[1] # <<"x","a","r","g","s">> THEN <<>>
    ELSE LET i == xargsSkipFlags(words, 2) IN
         IF i = 0 \/ i > Len(words) THEN <<>>
         ELSE splitWords(join(actualCommand(words, i)))

\* Every call in the chain of calls that starts with words gets fewer words
RECURSIVE ShorterAtEveryCall(_)
ShorterAtEveryCall(words) ==
    Forwarded(words) # <<>> =>
        /\ Len(Forwarded(words)) < Len(words)
        /\ ShorterAtEveryCall(Forwarded(words))

\* The number of calls in the chain
RECURSIVE ForwardDepth(_)
ForwardDepth(words) ==
    IF Forwarded(words) = <<>> THEN 0 ELSE 1 + ForwardDepth(Forwarded(words))

C27_ForwardedWordsGetFewer ==
    LET segments == SegmentsOf(stripRedirects(command)) IN
    /\ \A k \in 1..Len(segments) : ShorterAtEveryCall(splitWords(segments[k]))
    /\ Classified => verdict \in { "true", "false", TypeError }

\* C27 witness: forwarding four levels deep, classified
C27_Witness ==
    /\ Classified
    /\ command = <<"x","a","r","g","s"," ","x","a","r","g","s"," ","-","n"," ","1"," ","x","a","r","g","s"," ","-","0"," ","x","a","r","g","s"," ","r","m">>
    /\ ForwardDepth(splitWords(parts[1])) = 4
    /\ ShorterAtEveryCall(splitWords(parts[1]))
    /\ verdict = "false"

\* C28 (as claimed): forwarding goes one level deep: a segment whose xargs
\* hands on a command that is itself an xargs with a command is not accepted.
C28_NestedForwardingIsNotAccepted ==
    (Classified /\ ~hasMeta) =>
        \A k \in 1..Len(parts) :
            ForwardDepth(splitWords(parts[k])) >= 2 =>
                /\ isCommandSafe(parts[k]) # "true"
                /\ verdict # "true"

\* C29: the verdict of a segment that does not begin with xargs is that of
\* its first word (a word of safeBashCommands), of its first two words (the
\* subcommand rule, gh --version) or of its first three words (gh, ktools):
\* the words behind them do not change it; git branch -D x and
\* find . -delete are safe.
\* The number of words from which the verdict is claimed to follow
DecidingWords(words) ==
    IF words[1] \in safeBashCommands THEN 1
    ELSE IF words[1] = <<"k","t","o","o","l","s">> THEN 3
    ELSE IF words[1] = <<"g","h">> /\ ~(Len(words) >= 2 /\ words[2] = <<"-","-","v","e","r","s","i","o","n">>) THEN 3
    ELSE 2

Shortened(words) ==
    SubSeq(words, 1, IF Len(words) < DecidingWords(words) THEN Len(words)
                     ELSE DecidingWords(words))

C29_FurtherWordsDoNotMatter ==
    (Classified /\ ~hasMeta) =>
        /\ \A k \in 1..Len(parts) :
              LET words == splitWords(parts[k]) IN
              words[1] # <<"x","a","r","g","s">> =>
                  /\ isCommandSafe(parts[k]) = isCommandSafe(join(Shortened(words)))
                  /\ Len(parts) = 1 => verdict = isSafeBashCommand(join(Shortened(words)))
        /\ command \in { <<"g","i","t"," ","b","r","a","n","c","h"," ","-","D"," ","x">>, <<"f","i","n","d"," ","."," ","-","d","e","l","e","t","e">> } => verdict = "true"

\* C29 witness: find with -delete behind the one word that decides
C29_Witness ==
    /\ Classified
    /\ command = <<"f","i","n","d"," ","."," ","-","d","e","l","e","t","e">>
    /\ Shortened(splitWords(parts[1])) = << <<"f","i","n","d">> >>
    /\ verdict = "true"

\* C30 (as claimed): with a UI, a bash call with a command that the
\* classifier accepts returns without a call of ctx.ui.select; every other
\* call of a tool other than read has called ctx.ui.select once when the
\* handler returns; ctx.ui.select is never called twice for one tool call.
AcceptedBashCall ==
    /\ toolName = "bash"
    /\ commandDefined
    /\ isSafeBashCommand(command) = "true"

C30_PromptOnceUnlessAccepted ==
    /\ selectCalls <= 1
    /\ (pc = "returned" /\ hasUI /\ toolName # "read") =>
          selectCalls = IF AcceptedBashCall THEN 0 ELSE 1


\* C31 (as claimed): a bash call without a command, or with the empty
\* command, is never allowed without a choice of Allow, the classifier is not
\* asked about it, and ctx.ui.select has been called when the handler returns.
CommandMissing ==
    /\ toolName = "bash"
    /\ (~commandDefined \/ command = <<>>)

C31_NoCommandAlwaysPrompts ==
    (pc = "returned" /\ CommandMissing) =>
        /\ verdict = "none"
        /\ selectCalls = 1
        /\ (result = "undefined" => choice = "Allow")

\* C31 (amended): a bash call without a command, or with the empty command,
\* is never allowed without a choice of Allow and the classifier is not asked
\* about it; with a UI ctx.ui.select has been called once when the handler
\* returns, and without a UI the call is blocked with no prompt.
C31_NoCommandIsNeverAutoAllowed ==
    (pc = "returned" /\ CommandMissing) =>
        /\ verdict = "none"
        /\ hasUI =>
              /\ selectCalls = 1
              /\ (result = "undefined" <=> choice = "Allow")
        /\ ~hasUI =>
              /\ selectCalls = 0
              /\ result = "blocked (no UI for confirmation)"

C31_Witness ==
    /\ pc = "returned"
    /\ toolName = "bash"
    /\ hasUI
    /\ commandDefined
    /\ command = <<>>
    /\ isSafeBashCommand(command) = "true"
    /\ verdict = "none"
    /\ selectCalls = 1
    /\ choice = "Skip"
    /\ result = "skipped by user"

\* C32 (as claimed): normalization keeps the active characters that survive
\* it active.  No benign redirect contains ; or |, so the k-th ; or | of the
\* raw command is the k-th of the normalized command: whenever it is active
\* in the raw command it is active in the normalized command.
SeparatorPositions(s) == Ascending({ i \in 1..Len(s) : s[i] \in {";", "|"} })

C32_NormalizationKeepsSeparatorsActive ==
    Classified =>
        LET raw == SeparatorPositions(command)
            clean == SeparatorPositions(cleanCommand)
        IN /\ Len(raw) = Len(clean)
           /\ \A k \in 1..Len(raw) :
                 ActiveAt(command, raw[k]) => ActiveAt(cleanCommand, clean[k])

\* C33 (as claimed): a command that ends inside a single or double quote, or
\* with a backslash that escapes nothing, is classified unsafe.
C33_UnterminatedCommandIsUnsafe ==
    (Classified /\ ~WellFormed(command)) => verdict = "false"

\* C34: the words of a segment are its maximal runs of characters other than
\* whitespace, quotes and backslashes included, so a quoted argument with
\* spaces is several words; the argument that the xargs rule skips behind
\* -I -i -n -s -P -L -l is the one such run that follows the flag, also when
\* that run opens a quoted string.
TokensOf(s) ==
    LET starts == Ascending({ i \in 1..Len(s) :
                                /\ s[i] \notin Whitespace
                                /\ (i = 1 \/ s[i - 1] \in Whitespace) })
        endOf(a) == CHOOSE b \in a..Len(s) :
                        /\ \A j \in a..b : s[j] \notin Whitespace
                        /\ b = Len(s) \/ s[b + 1] \in Whitespace
    IN [k \in 1..Len(starts) |-> SubSeq(s, starts[k], endOf(starts[k]))]

C34_WordsAreWhitespaceTokens ==
    (Classified /\ ~hasMeta) =>
        \A k \in 1..Len(parts) :
            LET tokens == TokensOf(parts[k]) IN
            /\ splitWords(parts[k]) = tokens
            /\ tokens[1] = <<"x","a","r","g","s">> =>
                  ( isCommandSafe(parts[k]) = "true" <=>
                       /\ XargsRest(tokens) # <<>>
                       /\ isCommandSafe(join(XargsRest(tokens))) = "true" )

\* C34 witness: -I takes "x, the first half of a quoted string, for its
\* argument; the word y" is left in front of ls and the segment is unsafe
C34_Witness ==
    /\ Classified
    /\ command = <<"x","a","r","g","s"," ","-","I"," ","\"","x"," ","y","\""," ","l","s">>
    /\ splitWords(parts[1]) = << <<"x","a","r","g","s">>, <<"-","I">>, <<"\"","x">>, <<"y","\"">>, <<"l","s">> >>
    /\ verdict = "false"

\* C35: a step of /checkpoints delete removes a file only when it is the
\* answer to the confirmation and the answer accepts: it then removes
\* <name>.md and nothing else.  With an empty name or a checkpoint that does
\* not exist no confirmation is asked, and with these or a declined
\* confirmation the directory is left as it was.  No other step removes a file.
DeleteStep ==
    \/ pc = "idle" /\ commands' # commands /\ actionOf(args') = <<"d","e","l","e","t","e">>
    \/ pc = "delete_confirm"

DeleteAccepted ==
    /\ pc = "delete_confirm"
    /\ handlerLocals'.ok = "true"

C35_DeleteOnlyAfterConfirmation ==
    [][ /\ (DOMAIN checkpointFiles \ DOMAIN checkpointFiles' # {}) => DeleteAccepted
        /\ DeleteAccepted =>
              /\ handlerLocals.name = trim(restOf(args))
              /\ handlerLocals.name # <<>>
              /\ filePath(handlerLocals.name) \in DOMAIN checkpointFiles
              /\ DOMAIN checkpointFiles' =
                    DOMAIN checkpointFiles \ { filePath(handlerLocals.name) }
              /\ \A f \in DOMAIN checkpointFiles' :
                    checkpointFiles'[f] = checkpointFiles[f]
        /\ (DeleteStep /\ ~DeleteAccepted) => checkpointFiles' = checkpointFiles
        /\ (DeleteStep /\ pc' = "delete_confirm") =>
              /\ trim(restOf(args')) # <<>>
              /\ filePath(trim(restOf(args'))) \in DOMAIN checkpointFiles
      ]_vars

\* C35 witness: delete a has been confirmed, a.md is gone and b.md is kept
C35_Witness ==
    /\ pc = "idle"
    /\ args = <<"d","e","l","e","t","e"," ","a">>
    /\ handlerLocals.ok = "true"
    /\ notified = "Deleted"
    /\ DOMAIN checkpointFiles = { <<"b",".","m","d">> }
    /\ checkpointFiles[<<"b",".","m","d">>] = <<"e","a","r","l","i","e","r"," ","n","o","t","e","s">>

\* C36: a step changes the content of a checkpoint file, or creates one, only
\* when it is the return of the completion call of /checkpoints save with a
\* non-empty name, a selected template, a conversation that is not empty, a
\* model and an API key, and, when <name>.md exists, an accepted overwrite
\* confirmation; it then writes <name>.md and no other file.  Every other step
\* of save, a completion call that throws included, leaves every file of the
\* directory with its content.
WrittenFiles ==
    { f \in DOMAIN checkpointFiles' :
        f \notin DOMAIN checkpointFiles \/ checkpointFiles'[f] # checkpointFiles[f] }

SaveStep ==
    \/ pc = "idle" /\ commands' # commands /\ actionOf(args') = <<"s","a","v","e">>
    \/ pc \in { "save_select", "save_confirm", "save_getApiKey", "save_complete",
                "save_dialog" }

C36_SaveWritesOnlyAfterEveryCheck ==
    [][ /\ WrittenFiles # {} =>
              /\ pc = "save_complete"
              /\ handlerLocals'.response = "returned"
              /\ handlerLocals.name = trim(restOf(args))
              /\ handlerLocals.name # <<>>
              /\ handlerLocals.selected # <<>>
              /\ handlerLocals.messages > 0
              /\ handlerLocals.model = "model"
              /\ handlerLocals.apiKey = "key"
              /\ filePath(handlerLocals.name) \in DOMAIN checkpointFiles
                    => handlerLocals.ok = "true"
              /\ WrittenFiles = { filePath(handlerLocals.name) }
        /\ SaveStep => DOMAIN checkpointFiles \subseteq DOMAIN checkpointFiles'
        /\ (pc = "save_complete" /\ handlerLocals'.response = "thrown") =>
              checkpointFiles' = checkpointFiles
      ]_vars

\* C36 witness: save a has written the response over a.md after the overwrite
\* was confirmed; b.md has its content
C36_Witness ==
    /\ pc = "save_dialog"
    /\ args = <<"s","a","v","e"," ","a">>
    /\ handlerLocals.existed
    /\ handlerLocals.ok = "true"
    /\ handlerLocals.response = "returned"
    /\ checkpointFiles[<<"a",".","m","d">>] = <<"n","e","x","t"," ","s","t","e","p","s">>
    /\ <<"b",".","m","d">> \in DOMAIN checkpointFiles
    /\ checkpointFiles[<<"b",".","m","d">>] = <<"e","a","r","l","i","e","r"," ","n","o","t","e","s">>
====
